---- MODULE Spec2Model ----
(***************************************************************************)
(* Balance-seconds ledger of the Canopy points processor.                  *)
(*                                                                         *)
(* The entity store is modelled as one table (a function from entity id    *)
(* to record) per entity type.  Every event handler is one action: it      *)
(* reads the tables, computes the entities exactly as the handler does and *)
(* upserts them.  Events are delivered sequentially (processor.ts sets     *)
(* GLOBAL_CONFIG.execution.sequential) in ledger order, so the ledger      *)
(* version increases by one per event and the transaction timestamp never  *)
(* decreases.                                                              *)
(***************************************************************************)
EXTENDS Integers, Sequences, FiniteSets, TLC

\* ------------------------------------------------------------------------
\* Bounds of the model
\* ------------------------------------------------------------------------

\* number of events (of all processors) the event source delivers
MaxEvents == 4

\* ------------------------------------------------------------------------
\* Program constants
\* ------------------------------------------------------------------------

SNAPSHOT_LIFETIME_SECONDS == 24 * 60 * 60

\* padAptosAddress: Aptos addresses are 32 bytes (64 hex characters)
targetLength == 64

STATS_ID == "global"

DEPOSIT == "DEPOSIT"
WITHDRAW == "WITHDRAW"
STAKE == "STAKE"
UNSTAKE == "UNSTAKE"

\* ------------------------------------------------------------------------
\* Values
\* ------------------------------------------------------------------------

\* An address string "0x" + width hex characters whose digits after the
\* leading zeros are hex.  Two strings are equal iff both fields are equal.
Addr(h, w) == [hex |-> h, width |-> w]

\* A transaction timestamp in microseconds, seconds * 1000000 + micros,
\* kept as two limbs because the product exceeds the checker's integers.
Micros(s, u) == [seconds |-> s, micros |-> u]

\* Convert timestamp from microseconds to seconds (integer division)
getTimestampInSeconds(timestamp_micros) == timestamp_micros.seconds

\* pad with leading zeros to 64 hex characters; longer strings are kept
padAptosAddress(address) ==
  [address EXCEPT !.width = IF address.width < targetLength
                              THEN targetLength ELSE address.width]

\* ------------------------------------------------------------------------
\* Entity store
\* ------------------------------------------------------------------------

EmptyTable == [k \in {} |-> 0]

\* store.get(Type, id): the entity or absent
Has(table, id) == id \in DOMAIN table


\* variant: the upsert overwrites every row of the table
UpsertAllRows(table, id, entity) ==
  [k \in (DOMAIN table) \cup {id} |-> entity]

\* store.upsert(entity): last write wins per key
Upsert(table, id, entity) ==
  [k \in (DOMAIN table) \cup {id} |-> IF k = id THEN entity ELSE table[k]]

\* store.list(Vault, [{ field: "sharesMetadata", op: "=", value }])
ListVaultsBySharesMetadata(vaults, value) ==
  {v \in DOMAIN vaults : vaults[v].sharesMetadata = value}

VARIABLES
  vault,               \* Vault entities by vault address
  vaultStats,          \* VaultStats singleton table
  storeMetadataCache,  \* StoreMetadataCache by store address
  storeBalance,        \* StoreBalance by store address
  balanceSnapshot,     \* BalanceSnapshot by <<store address, sequence>>
  transaction,         \* Transaction by <<version, eventIndex>>
  fungibleAssetStats,  \* FungibleAssetStats singleton table
  user,                \* User by user address
  stakingBalance,      \* StakingBalance by <<user, staking token>>
  stakingSnapshot,     \* StakingSnapshot by <<<<user, token>>, sequence>>
  stakingTransaction,  \* StakingTransaction by <<version, eventIndex>>
  stakingStats,        \* StakingStats singleton table
  version,             \* ledger version of the last delivered event
  chainTime,           \* timestamp (seconds) of the last delivered event
  event,               \* the last delivered event, as the handler received it
  outcome,             \* how the handler of the last delivered event ended
  running,             \* the handlers in flight, by the version of their event
  query,               \* the average-balance query in progress or last answered
  dualAssetEvent,      \* DualAssetMessageProcessingEvent by <<version, index>>
  dualAssetStats       \* DualAssetMessageProcessingStats singleton table

vars == <<vault, vaultStats, storeMetadataCache, storeBalance, balanceSnapshot,
          transaction, fungibleAssetStats, user, stakingBalance,
          stakingSnapshot, stakingTransaction, stakingStats, version,
          chainTime, event, outcome, running,
          query, dualAssetEvent, dualAssetStats>>

vaultVars == <<vault, vaultStats>>
fungibleVars == <<storeMetadataCache, storeBalance, balanceSnapshot,
                  transaction, fungibleAssetStats>>
stakingVars == <<user, stakingBalance, stakingSnapshot, stakingTransaction,
                 stakingStats>>
dualAssetVars == <<dualAssetEvent, dualAssetStats>>

\* ------------------------------------------------------------------------
\* canopy-vault-processor.ts
\* ------------------------------------------------------------------------

\* variant: the singleton is created anew on every event
getOrCreateVaultStatsFresh(timestamp) ==
  [totalVaultCount |-> 0, lastUpdateTime |-> timestamp]

\* get or create vault stats singleton entity
getOrCreateVaultStats(timestamp) ==
  IF Has(vaultStats, STATS_ID)
    THEN vaultStats[STATS_ID]
    ELSE [totalVaultCount |-> 0, lastUpdateTime |-> timestamp]

\* onEventVaultCreated
VaultCreated(eventVault, eventSharesMetadata, ctx) ==
  LET timestamp == getTimestampInSeconds(ctx.timestamp)
      ctxVersion == ctx.version
      vaultAddress == padAptosAddress(eventVault)
      vaultSharesAddress == padAptosAddress(eventSharesMetadata)
      vaultEntity == [createdAt |-> timestamp,
                      sharesMetadata |-> vaultSharesAddress,
                      createdAtVersion |-> ctxVersion]
      stats0 == getOrCreateVaultStats(timestamp)
      stats == [stats0 EXCEPT !.totalVaultCount = @ + 1,
                              !.lastUpdateTime = timestamp]
  IN /\ vault' = Upsert(vault, vaultAddress, vaultEntity)
     /\ vaultStats' = Upsert(vaultStats, STATS_ID, stats)
     /\ UNCHANGED <<fungibleVars, stakingVars>>

\* ------------------------------------------------------------------------
\* multi-rewards-processor.ts
\* ------------------------------------------------------------------------

getOrCreateStakingStats(store, timestamp) ==
  IF Has(store.stakingStats, STATS_ID)
    THEN store.stakingStats[STATS_ID]
    ELSE [totalStakeCount |-> 0, totalUnstakeCount |-> 0,
          uniqueUserCount |-> 0, canopyVaultStakerCount |-> 0,
          lastUpdateTime |-> timestamp]


\* variant: the account is created already counting its first snapshot
NewStakingBalanceCounted(userAddress, stakingTokenMetadata, vaultId, timestamp) ==
  [userID |-> userAddress, stakingToken |-> stakingTokenMetadata,
   vaultID |-> vaultId, lastKnownBalance |-> 0,
   lastObservationTime |-> timestamp, cumulativeBalanceSeconds |-> 0,
   totalSnapshotCount |-> 1]

\* first time seeing this user-token combination
NewStakingBalance(userAddress, stakingTokenMetadata, vaultId, timestamp) ==
  [userID |-> userAddress, stakingToken |-> stakingTokenMetadata,
   vaultID |-> vaultId, lastKnownBalance |-> 0,
   lastObservationTime |-> timestamp, cumulativeBalanceSeconds |-> 0,
   totalSnapshotCount |-> 0]


\* variant: the balance is multiplied by the timestamp, not by the time delta
StakingCumulativeSinceEpoch(sb, timestamp) ==
  sb.cumulativeBalanceSeconds + sb.lastKnownBalance * timestamp

\* variant: the time delta is taken the wrong way round
StakingCumulativeReversed(sb, timestamp) ==
  LET timeDelta == sb.lastObservationTime - timestamp
      additionalBalanceSeconds == sb.lastKnownBalance * timeDelta
  IN sb.cumulativeBalanceSeconds + additionalBalanceSeconds

\* calculate cumulative balance-seconds before updating balance
StakingCumulative(sb, timestamp) ==
  LET timeDelta == timestamp - sb.lastObservationTime
      additionalBalanceSeconds == sb.lastKnownBalance * timeDelta
  IN sb.cumulativeBalanceSeconds + additionalBalanceSeconds


\* variant: an unstake is subtracted without the clamp
StakingNewBalanceUnclamped(previousBalance, amount, transactionType) ==
  IF transactionType = STAKE
    THEN previousBalance + amount
    ELSE previousBalance - amount

\* update balance based on transaction type
StakingNewBalance(previousBalance, amount, transactionType) ==
  IF transactionType = STAKE
    THEN previousBalance + amount
    ELSE IF previousBalance > amount THEN previousBalance - amount ELSE 0

\* id of the most recent snapshot
CurrentStakingSnapshotId(stakingBalanceId, sb) ==
  <<stakingBalanceId, sb.totalSnapshotCount>>


\* variant: the new snapshot is not counted
WithNewStakingSnapshotUncounted(sb) == sb

\* a new snapshot is counted
WithNewStakingSnapshot(sb) == [sb EXCEPT !.totalSnapshotCount = @ + 1]


\* variant: the snapshot expires when its age reaches the lifetime
StakingSnapshotExpiredAtLifetime(snapshot, timestamp) ==
  timestamp - snapshot.filledAt >= SNAPSHOT_LIFETIME_SECONDS

\* variant: the snapshot expires when the event falls on a later day
StakingSnapshotExpiredDaily(snapshot, timestamp) ==
  timestamp \div SNAPSHOT_LIFETIME_SECONDS
    > snapshot.filledAt \div SNAPSHOT_LIFETIME_SECONDS

\* the current snapshot is older than 24 hours
StakingSnapshotExpired(snapshot, timestamp) ==
  timestamp - snapshot.filledAt > SNAPSHOT_LIFETIME_SECONDS


\* variant: a new snapshot starts its cumulative at 0
NewStakingSnapshotFromZero(stakingBalanceId, sb, timestamp) ==
  [stakingBalanceID |-> stakingBalanceId, filledAt |-> timestamp,
   balance |-> sb.lastKnownBalance, cumulativeBalanceSeconds |-> 0,
   lastUpdateTime |-> timestamp]

\* create new snapshot
NewStakingSnapshot(stakingBalanceId, sb, timestamp) ==
  [stakingBalanceID |-> stakingBalanceId, filledAt |-> timestamp,
   balance |-> sb.lastKnownBalance,
   cumulativeBalanceSeconds |-> sb.cumulativeBalanceSeconds,
   lastUpdateTime |-> timestamp]


\* variant: the snapshot's cumulative is advanced at the new balance
UpdatedStakingSnapshotAtNewBalance(snapshot, sb, timestamp) ==
  LET snapshotTimeDelta == timestamp - snapshot.lastUpdateTime
      snapshotAdditionalBalanceSeconds ==
        sb.lastKnownBalance * snapshotTimeDelta
  IN [snapshot EXCEPT
        !.cumulativeBalanceSeconds = @ + snapshotAdditionalBalanceSeconds,
        !.balance = sb.lastKnownBalance,
        !.lastUpdateTime = timestamp]

\* variant: the update also moves filledAt to the event time
UpdatedStakingSnapshotRefilled(snapshot, sb, timestamp) ==
  LET snapshotTimeDelta == timestamp - snapshot.lastUpdateTime
      snapshotAdditionalBalanceSeconds == snapshot.balance * snapshotTimeDelta
  IN [snapshot EXCEPT
        !.filledAt = timestamp,
        !.cumulativeBalanceSeconds = @ + snapshotAdditionalBalanceSeconds,
        !.balance = sb.lastKnownBalance,
        !.lastUpdateTime = timestamp]

\* update existing snapshot
UpdatedStakingSnapshot(snapshot, sb, timestamp) ==
  LET snapshotTimeDelta == timestamp - snapshot.lastUpdateTime
      snapshotAdditionalBalanceSeconds == snapshot.balance * snapshotTimeDelta
  IN [snapshot EXCEPT
        !.cumulativeBalanceSeconds = @ + snapshotAdditionalBalanceSeconds,
        !.balance = sb.lastKnownBalance,
        !.lastUpdateTime = timestamp]

\* variant: firstSeenAt follows the last event of the user
GetOrCreateUserLastSeen(store, userAddress, timestamp) ==
  [firstSeenAt |-> timestamp]

\* get or create User
GetOrCreateUser(store, userAddress, timestamp) ==
  IF ~Has(store.user, userAddress)
    THEN [firstSeenAt |-> timestamp]
    ELSE store.user[userAddress]

\* the staking entities as the handler reads them: the persisted tables
StakingStore ==
  [user |-> user, stakingBalance |-> stakingBalance,
   stakingSnapshot |-> stakingSnapshot, stakingStats |-> stakingStats]

\* the entities the handler builds from what it read in the store, in the
\* order in which it persists them ("Get or create stats" to "Update stats
\* timestamp")
StakingEntities(userAddress, stakingTokenMetadata, amount, transactionType, ctx, vaultId, store) ==
  LET timestamp == getTimestampInSeconds(ctx.timestamp)
      ctxVersion == ctx.version
      eventIndex == ctx.eventIndex
      stats0 == getOrCreateStakingStats(store, timestamp)
      userIsNew == ~Has(store.user, userAddress)
      userEntity == GetOrCreateUser(store, userAddress, timestamp)
      stats1 == IF userIsNew
                  THEN [stats0 EXCEPT !.uniqueUserCount = @ + 1,
                                      !.canopyVaultStakerCount = @ + 1]
                  ELSE stats0
      stakingBalanceId == <<userAddress, stakingTokenMetadata>>
      sb0 == IF Has(store.stakingBalance, stakingBalanceId)
               THEN store.stakingBalance[stakingBalanceId]
               ELSE NewStakingBalance(userAddress, stakingTokenMetadata,
                                      vaultId, timestamp)
      sb1 == [sb0 EXCEPT
                !.cumulativeBalanceSeconds = StakingCumulative(sb0, timestamp),
                !.lastKnownBalance =
                   StakingNewBalance(sb0.lastKnownBalance, amount,
                                     transactionType),
                !.lastObservationTime = timestamp]
      stats2 == IF transactionType = STAKE
                  THEN [stats1 EXCEPT !.totalStakeCount = @ + 1]
                  ELSE [stats1 EXCEPT !.totalUnstakeCount = @ + 1]
      transactionEntity ==
        [stakingBalanceID |-> stakingBalanceId, userID |-> userAddress,
         timestamp |-> timestamp, type |-> transactionType,
         amount |-> amount, transactionVersion |-> ctxVersion,
         eventIndex |-> eventIndex]
      currentSnapshotId == CurrentStakingSnapshotId(stakingBalanceId, sb1)
      keepSnapshot ==
        /\ sb1.totalSnapshotCount > 0
        /\ Has(store.stakingSnapshot, currentSnapshotId)
        /\ ~StakingSnapshotExpired(store.stakingSnapshot[currentSnapshotId],
                                   timestamp)
      sb2 == IF keepSnapshot THEN sb1 ELSE WithNewStakingSnapshot(sb1)
      snapshotId ==
        IF keepSnapshot
          THEN currentSnapshotId
          ELSE <<stakingBalanceId, sb2.totalSnapshotCount>>
      snapshotEntity ==
        IF keepSnapshot
          THEN UpdatedStakingSnapshot(store.stakingSnapshot[currentSnapshotId],
                                      sb2, timestamp)
          ELSE NewStakingSnapshot(stakingBalanceId, sb2, timestamp)
      stats3 == [stats2 EXCEPT !.lastUpdateTime = timestamp]
  IN [userId |-> userAddress, user |-> userEntity,
      stakingBalanceId |-> stakingBalanceId, stakingBalance |-> sb2,
      transactionId |-> <<ctxVersion, eventIndex>>,
      transaction |-> transactionEntity,
      snapshotId |-> snapshotId, snapshot |-> snapshotEntity,
      stats |-> stats3]

\* variant: an event whose transaction record exists is skipped
processStakingChangeOnce(userAddress, stakingTokenMetadata, amount, transactionType, ctx) ==
  LET vaults == ListVaultsBySharesMetadata(vault, stakingTokenMetadata)
  IN IF vaults = {} \/ Has(stakingTransaction, <<ctx.version, ctx.eventIndex>>)
       THEN UNCHANGED stakingVars
       ELSE \E vaultId \in vaults :
         LET entities ==
               StakingEntities(userAddress, stakingTokenMetadata, amount,
                               transactionType, ctx, vaultId, StakingStore)
         IN /\ user' = Upsert(user, entities.userId, entities.user)
            /\ stakingBalance' =
                 Upsert(stakingBalance, entities.stakingBalanceId,
                        entities.stakingBalance)
            /\ stakingTransaction' =
                 Upsert(stakingTransaction, entities.transactionId,
                        entities.transaction)
            /\ stakingSnapshot' =
                 Upsert(stakingSnapshot, entities.snapshotId,
                        entities.snapshot)
            /\ stakingStats' = Upsert(stakingStats, STATS_ID, entities.stats)

\* variant: an event of amount 0 is skipped
processStakingChangeSkippingZero(userAddress, stakingTokenMetadata, amount, transactionType, ctx) ==
  LET vaults == ListVaultsBySharesMetadata(vault, stakingTokenMetadata)
  IN IF vaults = {} \/ amount = 0
       THEN UNCHANGED stakingVars
       ELSE \E vaultId \in vaults :
         LET entities ==
               StakingEntities(userAddress, stakingTokenMetadata, amount,
                               transactionType, ctx, vaultId, StakingStore)
         IN /\ user' = Upsert(user, entities.userId, entities.user)
            /\ stakingBalance' =
                 Upsert(stakingBalance, entities.stakingBalanceId,
                        entities.stakingBalance)
            /\ stakingTransaction' =
                 Upsert(stakingTransaction, entities.transactionId,
                        entities.transaction)
            /\ stakingSnapshot' =
                 Upsert(stakingSnapshot, entities.snapshotId,
                        entities.snapshot)
            /\ stakingStats' = Upsert(stakingStats, STATS_ID, entities.stats)

\* main processing function for both stake and unstake events
processStakingChange(userAddress, stakingTokenMetadata, amount, transactionType, ctx) ==
  LET vaults == ListVaultsBySharesMetadata(vault, stakingTokenMetadata)
  IN IF vaults = {}
       THEN UNCHANGED stakingVars
       ELSE \E vaultId \in vaults :
         LET entities ==
               StakingEntities(userAddress, stakingTokenMetadata, amount,
                               transactionType, ctx, vaultId, StakingStore)
         IN /\ user' = Upsert(user, entities.userId, entities.user)
            /\ stakingBalance' =
                 Upsert(stakingBalance, entities.stakingBalanceId,
                        entities.stakingBalance)
            /\ stakingTransaction' =
                 Upsert(stakingTransaction, entities.transactionId,
                        entities.transaction)
            /\ stakingSnapshot' =
                 Upsert(stakingSnapshot, entities.snapshotId,
                        entities.snapshot)
            /\ stakingStats' = Upsert(stakingStats, STATS_ID, entities.stats)

\* ------------------------------------------------------------------------
\* fungible-asset-processor.ts
\* ------------------------------------------------------------------------

\* outcomes of the view call 0x1::fungible_asset::store_metadata other than
\* a metadata address: the call rejects, or result[0].inner is missing
ViewThrows == [failure |-> "view throws"]
NoMetadata == [failure |-> "no metadata"]

\* variant: the singleton is created anew on every event
getOrCreateFungibleAssetStatsFresh(store, timestamp) ==
  [totalDepositCount |-> 0, totalWithdrawCount |-> 0,
   uniqueStoreCount |-> 0, canopyVaultStoreCount |-> 0,
   lastUpdateTime |-> timestamp]

\* get or create fungible asset stats singleton
getOrCreateFungibleAssetStats(store, timestamp) ==
  IF Has(store.fungibleAssetStats, STATS_ID)
    THEN store.fungibleAssetStats[STATS_ID]
    ELSE [totalDepositCount |-> 0, totalWithdrawCount |-> 0,
          uniqueStoreCount |-> 0, canopyVaultStoreCount |-> 0,
          lastUpdateTime |-> timestamp]

\* variant: every store whose metadata was read is taken for a vault store
NewStoreMetadataCacheAlwaysTracked(metadataAddress, vaults, vaultId) ==
  [metadata |-> metadataAddress, isCanopyVault |-> TRUE,
   vaultID |-> <<vaultId>>]

\* cache miss: the entry built from the view result and the Vault lookup
NewStoreMetadataCache(metadataAddress, vaults, vaultId) ==
  LET isCanopyVault == vaults # {}
  IN [metadata |-> metadataAddress, isCanopyVault |-> isCanopyVault,
      vaultID |-> IF isCanopyVault THEN <<vaultId>> ELSE <<>>]

\* first time seeing this store
NewStoreBalance(storeAddress, vaultId, timestamp) ==
  [fungible_store |-> storeAddress, vaultID |-> vaultId,
   lastKnownBalance |-> 0, lastObservationTime |-> timestamp,
   cumulativeBalanceSeconds |-> 0, totalSnapshotCount |-> 0]

\* calculate cumulative balance-seconds before updating balance
StoreCumulative(sb, timestamp) ==
  LET timeDelta == timestamp - sb.lastObservationTime
      additionalBalanceSeconds == sb.lastKnownBalance * timeDelta
  IN sb.cumulativeBalanceSeconds + additionalBalanceSeconds

\* update balance based on transaction type
StoreNewBalance(previousBalance, amount, transactionType) ==
  IF transactionType = DEPOSIT
    THEN previousBalance + amount
    ELSE IF previousBalance > amount THEN previousBalance - amount ELSE 0


\* variant: the most recent snapshot is looked up with a zero-based sequence
CurrentBalanceSnapshotIdZeroBased(storeAddress, sb) ==
  <<storeAddress, sb.totalSnapshotCount - 1>>

\* id of the most recent snapshot
CurrentBalanceSnapshotId(storeAddress, sb) ==
  <<storeAddress, sb.totalSnapshotCount>>

\* a new snapshot is counted
WithNewBalanceSnapshot(sb) == [sb EXCEPT !.totalSnapshotCount = @ + 1]

\* variant: the snapshot expires when its age reaches the lifetime
BalanceSnapshotExpiredAtLifetime(snapshot, timestamp) ==
  timestamp - snapshot.filledAt >= SNAPSHOT_LIFETIME_SECONDS

\* the current snapshot is older than 24 hours
BalanceSnapshotExpired(snapshot, timestamp) ==
  timestamp - snapshot.filledAt > SNAPSHOT_LIFETIME_SECONDS

\* create new snapshot
NewBalanceSnapshot(storeAddress, sb, timestamp) ==
  [storeBalanceID |-> storeAddress, filledAt |-> timestamp,
   balance |-> sb.lastKnownBalance,
   cumulativeBalanceSeconds |-> sb.cumulativeBalanceSeconds,
   lastUpdateTime |-> timestamp]

\* update existing snapshot
UpdatedBalanceSnapshot(snapshot, sb, timestamp) ==
  LET snapshotTimeDelta == timestamp - snapshot.lastUpdateTime
      snapshotAdditionalBalanceSeconds == snapshot.balance * snapshotTimeDelta
  IN [snapshot EXCEPT
        !.cumulativeBalanceSeconds = @ + snapshotAdditionalBalanceSeconds,
        !.balance = sb.lastKnownBalance,
        !.lastUpdateTime = timestamp]

\* the store entities as the handler reads them: the persisted tables
FungibleStore ==
  [storeBalance |-> storeBalance, balanceSnapshot |-> balanceSnapshot,
   fungibleAssetStats |-> fungibleAssetStats]

\* the entities the handler builds for a store of a Canopy vault from what
\* it read in the store, in the order in which it persists them ("Get or
\* create StoreBalance" to "Update stats timestamp")
StoreEntities(storeAddress, amount, transactionType, ctx, canopyVaultId, store) ==
  LET timestamp == getTimestampInSeconds(ctx.timestamp)
      signer == ctx.sender
      ctxVersion == ctx.version
      eventIndex == ctx.eventIndex
      stats0 == getOrCreateFungibleAssetStats(store, timestamp)
      storeIsNew == ~Has(store.storeBalance, storeAddress)
      sb0 == IF storeIsNew
               THEN NewStoreBalance(storeAddress, canopyVaultId, timestamp)
               ELSE store.storeBalance[storeAddress]
      stats1 == IF storeIsNew
                  THEN [stats0 EXCEPT !.uniqueStoreCount = @ + 1,
                                      !.canopyVaultStoreCount = @ + 1]
                  ELSE stats0
      sb1 == [sb0 EXCEPT
                !.cumulativeBalanceSeconds = StoreCumulative(sb0, timestamp),
                !.lastKnownBalance =
                   StoreNewBalance(sb0.lastKnownBalance, amount,
                                   transactionType),
                !.lastObservationTime = timestamp]
      stats2 == IF transactionType = DEPOSIT
                  THEN [stats1 EXCEPT !.totalDepositCount = @ + 1]
                  ELSE [stats1 EXCEPT !.totalWithdrawCount = @ + 1]
      transactionEntity ==
        [storeBalanceID |-> storeAddress, signer |-> signer,
         timestamp |-> timestamp, type |-> transactionType,
         amount |-> amount, transactionVersion |-> ctxVersion,
         eventIndex |-> eventIndex]
      currentSnapshotId == CurrentBalanceSnapshotId(storeAddress, sb1)
      keepSnapshot ==
        /\ sb1.totalSnapshotCount > 0
        /\ Has(store.balanceSnapshot, currentSnapshotId)
        /\ ~BalanceSnapshotExpired(store.balanceSnapshot[currentSnapshotId],
                                   timestamp)
      sb2 == IF keepSnapshot THEN sb1 ELSE WithNewBalanceSnapshot(sb1)
      snapshotId ==
        IF keepSnapshot
          THEN currentSnapshotId
          ELSE <<storeAddress, sb2.totalSnapshotCount>>
      snapshotEntity ==
        IF keepSnapshot
          THEN UpdatedBalanceSnapshot(store.balanceSnapshot[currentSnapshotId],
                                      sb2, timestamp)
          ELSE NewBalanceSnapshot(storeAddress, sb2, timestamp)
      stats3 == [stats2 EXCEPT !.lastUpdateTime = timestamp]
  IN [storeBalanceId |-> storeAddress, storeBalance |-> sb2,
      transactionId |-> <<ctxVersion, eventIndex>>,
      transaction |-> transactionEntity,
      snapshotId |-> snapshotId, snapshot |-> snapshotEntity,
      stats |-> stats3]

\* the part of processBalanceChange that follows the metadata resolution
\* ("Only process if this is a Canopy vault share" onwards); cache is the
\* StoreMetadataCache table as left by the metadata resolution
ProcessTrackedStore(cache, storeAddress, amount, transactionType, ctx) ==
  LET storeMetadata == cache[storeAddress]
  IN /\ storeMetadataCache' = cache
     /\ IF ~storeMetadata.isCanopyVault
          THEN UNCHANGED <<storeBalance, balanceSnapshot, transaction,
                           fungibleAssetStats>>
          ELSE
            LET entities ==
                  StoreEntities(storeAddress, amount, transactionType, ctx,
                                storeMetadata.vaultID[1], FungibleStore)
            IN /\ storeBalance' =
                    Upsert(storeBalance, entities.storeBalanceId,
                           entities.storeBalance)
               /\ transaction' =
                    Upsert(transaction, entities.transactionId,
                           entities.transaction)
               /\ balanceSnapshot' =
                    Upsert(balanceSnapshot, entities.snapshotId,
                           entities.snapshot)
               /\ fungibleAssetStats' =
                    Upsert(fungibleAssetStats, STATS_ID, entities.stats)

\* variant: the metadata is looked up and the cache entry written on every
\* event
processBalanceChangeUncached(storeAddress, amount, transactionType, ctx) ==
  IF ctx.viewResult \in {ViewThrows, NoMetadata}
    THEN UNCHANGED fungibleVars
    ELSE
      LET metadataAddress == ctx.viewResult
          vaults == ListVaultsBySharesMetadata(vault, metadataAddress)
      IN \E vaultId \in (IF vaults = {} THEN {metadataAddress} ELSE vaults) :
           ProcessTrackedStore(
             Upsert(storeMetadataCache, storeAddress,
                    NewStoreMetadataCache(metadataAddress, vaults, vaultId)),
             storeAddress, amount, transactionType, ctx)

\* variant: a failed lookup is cached as a store that is not tracked
processBalanceChangeCachingFailure(storeAddress, amount, transactionType, ctx) ==
  IF Has(storeMetadataCache, storeAddress)
    THEN ProcessTrackedStore(storeMetadataCache, storeAddress, amount,
                             transactionType, ctx)
    ELSE IF ctx.viewResult \in {ViewThrows, NoMetadata}
      THEN ProcessTrackedStore(
             Upsert(storeMetadataCache, storeAddress,
                    [metadata |-> <<>>, isCanopyVault |-> FALSE,
                     vaultID |-> <<>>]),
             storeAddress, amount, transactionType, ctx)
      ELSE
        LET metadataAddress == ctx.viewResult
            vaults == ListVaultsBySharesMetadata(vault, metadataAddress)
        IN \E vaultId \in (IF vaults = {} THEN {metadataAddress} ELSE vaults) :
             ProcessTrackedStore(
               Upsert(storeMetadataCache, storeAddress,
                      NewStoreMetadataCache(metadataAddress, vaults, vaultId)),
               storeAddress, amount, transactionType, ctx)

\* main processing function for both deposits and withdrawals;
\* ctx.viewResult is what the view call returns when the store is not cached
processBalanceChange(storeAddress, amount, transactionType, ctx) ==
  IF Has(storeMetadataCache, storeAddress)
    THEN ProcessTrackedStore(storeMetadataCache, storeAddress, amount,
                             transactionType, ctx)
    ELSE IF ctx.viewResult \in {ViewThrows, NoMetadata}
      THEN UNCHANGED fungibleVars
      ELSE
        LET metadataAddress == ctx.viewResult
            vaults == ListVaultsBySharesMetadata(vault, metadataAddress)
        IN \E vaultId \in (IF vaults = {} THEN {metadataAddress} ELSE vaults) :
             ProcessTrackedStore(
               Upsert(storeMetadataCache, storeAddress,
                      NewStoreMetadataCache(metadataAddress, vaults, vaultId)),
               storeAddress, amount, transactionType, ctx)

\* ------------------------------------------------------------------------
\* Store failures: a store operation of a handler throws
\* ------------------------------------------------------------------------

NoFault == "none"

\* the store operations of processBalanceChange, in program order
FungibleOps ==
  <<"get StoreMetadataCache", "get FungibleAssetStats",
    "list Vault by metadata", "upsert StoreMetadataCache", "get Vault",
    "get StoreBalance", "get BalanceSnapshot", "upsert StoreBalance",
    "upsert Transaction", "upsert BalanceSnapshot",
    "upsert FungibleAssetStats">>


\* variant: the snapshot is persisted before the account
StakingOpsSnapshotFirst ==
  <<"list Vault by staking token", "get StakingStats", "get User",
    "get StakingBalance", "get StakingSnapshot", "upsert User",
    "upsert StakingSnapshot", "upsert StakingTransaction",
    "upsert StakingBalance", "upsert StakingStats">>

\* the store operations of processStakingChange, in program order
StakingOps ==
  <<"list Vault by staking token", "get StakingStats", "get User",
    "get StakingBalance", "get StakingSnapshot", "upsert User",
    "upsert StakingBalance", "upsert StakingTransaction",
    "upsert StakingSnapshot", "upsert StakingStats">>

\* the store operations inside the try block of processBalanceChange, whose
\* catch logs the error and returns
SwallowedFaults == {"list Vault by metadata", "upsert StoreMetadataCache"}

\* how a handler ends when the store operation `fault` throws
HandlerOutcome(fault) ==
  IF fault = NoFault \/ fault \in SwallowedFaults
    THEN "returned"
    ELSE "threw"

\* the operation op comes before the failing one, so it has completed
Completed(ops, op, fault) ==
  \E i, j \in 1..Len(ops) : i < j /\ ops[i] = op /\ ops[j] = fault

\* the table after an upsert that the handler completes only if it comes
\* before the failing operation
UpsertIfCompleted(ops, op, fault, table, id, entity) ==
  IF Completed(ops, op, fault) THEN Upsert(table, id, entity) ELSE table

\* processBalanceChange when the store operation `fault` throws: the
\* operations before it have taken effect, the ones after it are not run
processBalanceChangeFailing(storeAddress, amount, transactionType, ctx, fault) ==
  LET miss == ~Has(storeMetadataCache, storeAddress)
      viewed == ctx.viewResult \notin {ViewThrows, NoMetadata}
      metadataAddress == ctx.viewResult
      vaults == ListVaultsBySharesMetadata(vault, metadataAddress)
      resolved == ~miss \/ viewed
      cache ==
        IF miss
          THEN Upsert(storeMetadataCache, storeAddress,
                      NewStoreMetadataCache(
                        metadataAddress, vaults,
                        IF vaults = {} THEN metadataAddress
                                       ELSE CHOOSE v \in vaults : TRUE))
          ELSE storeMetadataCache
      tracked == resolved /\ cache[storeAddress].isCanopyVault
      entities ==
        StoreEntities(storeAddress, amount, transactionType, ctx,
                      cache[storeAddress].vaultID[1], FungibleStore)
      executed ==
        {"get StoreMetadataCache", "get FungibleAssetStats"}
          \cup (IF miss /\ viewed
                  THEN {"list Vault by metadata", "upsert StoreMetadataCache"}
                  ELSE {})
          \cup (IF tracked
                  THEN {"get Vault", "get StoreBalance", "upsert StoreBalance",
                        "upsert Transaction", "upsert BalanceSnapshot",
                        "upsert FungibleAssetStats"}
                  ELSE {})
          \cup (IF /\ tracked
                   /\ Has(storeBalance, storeAddress)
                   /\ storeBalance[storeAddress].totalSnapshotCount > 0
                  THEN {"get BalanceSnapshot"}
                  ELSE {})
  IN /\ fault \in executed
     /\ storeMetadataCache' =
          IF Completed(FungibleOps, "upsert StoreMetadataCache", fault)
            THEN cache ELSE storeMetadataCache
     /\ storeBalance' =
          UpsertIfCompleted(FungibleOps, "upsert StoreBalance", fault,
                            storeBalance, entities.storeBalanceId,
                            entities.storeBalance)
     /\ transaction' =
          UpsertIfCompleted(FungibleOps, "upsert Transaction", fault,
                            transaction, entities.transactionId,
                            entities.transaction)
     /\ balanceSnapshot' =
          UpsertIfCompleted(FungibleOps, "upsert BalanceSnapshot", fault,
                            balanceSnapshot, entities.snapshotId,
                            entities.snapshot)
     /\ UNCHANGED fungibleAssetStats

\* processStakingChange when the store operation `fault` throws
processStakingChangeFailing(userAddress, stakingTokenMetadata, amount, transactionType, ctx, fault) ==
  LET vaults == ListVaultsBySharesMetadata(vault, stakingTokenMetadata)
      stakingBalanceId == <<userAddress, stakingTokenMetadata>>
      tracked == vaults # {}
      executed ==
        {"list Vault by staking token"}
          \cup (IF tracked
                  THEN {"get StakingStats", "get User", "get StakingBalance",
                        "upsert User", "upsert StakingBalance",
                        "upsert StakingTransaction", "upsert StakingSnapshot",
                        "upsert StakingStats"}
                  ELSE {})
          \cup (IF /\ tracked
                   /\ Has(stakingBalance, stakingBalanceId)
                   /\ stakingBalance[stakingBalanceId].totalSnapshotCount > 0
                  THEN {"get StakingSnapshot"}
                  ELSE {})
  IN /\ fault \in executed
     /\ \E vaultId \in (IF tracked THEN vaults ELSE {stakingTokenMetadata}) :
          LET entities ==
                StakingEntities(userAddress, stakingTokenMetadata, amount,
                                transactionType, ctx, vaultId, StakingStore)
          IN /\ user' =
                  UpsertIfCompleted(StakingOps, "upsert User", fault, user,
                                    entities.userId, entities.user)
             /\ stakingBalance' =
                  UpsertIfCompleted(StakingOps, "upsert StakingBalance", fault,
                                    stakingBalance, entities.stakingBalanceId,
                                    entities.stakingBalance)
             /\ stakingTransaction' =
                  UpsertIfCompleted(StakingOps, "upsert StakingTransaction",
                                    fault, stakingTransaction,
                                    entities.transactionId,
                                    entities.transaction)
             /\ stakingSnapshot' =
                  UpsertIfCompleted(StakingOps, "upsert StakingSnapshot", fault,
                                    stakingSnapshot, entities.snapshotId,
                                    entities.snapshot)
             /\ UNCHANGED stakingStats

\* ------------------------------------------------------------------------
\* Event source
\* ------------------------------------------------------------------------

\* addresses on the ledger
V1 == Addr("f8e3", 64)    \* a vault
M1 == Addr("95a1", 64)    \* its shares metadata
S1 == Addr("96ad", 64)    \* a fungible store holding M1
U1 == Addr("bee7", 64)    \* a staker; also the sender of the transactions

\* the metadata object of each store on the ledger
StoreMetadataOnChain(storeAddress) == M1

\* what the view call can return for a store
ViewResults(storeAddress) ==
  {StoreMetadataOnChain(storeAddress), ViewThrows, NoMetadata}

\* transaction timestamps (microseconds) the events carry
EventTimes ==
  {Micros(1000, 0), Micros(4600, 999999), Micros(87400, 0),
   Micros(87401, 1), Micros(173802, 0)}

DepositAmounts == {2}
WithdrawAmounts == {1, 3}

\* events are delivered in ledger order: versions increase, transaction
\* timestamps do not decrease
Delivered(ev, timestamp_micros) ==
  /\ version < MaxEvents
  /\ getTimestampInSeconds(timestamp_micros) >= chainTime
  /\ version' = version + 1
  /\ chainTime' = getTimestampInSeconds(timestamp_micros)
  /\ event' = [ev EXCEPT !.timestamp = getTimestampInSeconds(timestamp_micros),
                         !.version = version + 1]
  /\ outcome' = HandlerOutcome(ev.fault)
  /\ UNCHANGED <<running, query, dualAssetVars>>

\* the context a handler is called with: transaction timestamp
\* (microseconds), version, event index, sender and view client
Context(timestamp_micros, r) ==
  [timestamp |-> timestamp_micros, version |-> version + 1, eventIndex |-> 0,
   sender |-> U1, viewResult |-> r]

NoEvent ==
  [type |-> "none", vault |-> <<>>, store |-> <<>>, user |-> <<>>,
   token |-> <<>>, amount |-> 0, viewResult |-> <<>>, timestamp |-> 0,
   version |-> 0, fault |-> NoFault, redelivered |-> FALSE,
   messageType |-> 0, traceCode |-> 0]

OnVaultCreated ==
  \E t \in EventTimes :
    /\ Delivered([NoEvent EXCEPT !.type = "VaultCreated", !.vault = V1,
                                 !.token = M1], t)
    /\ VaultCreated(V1, M1, Context(t, <<>>))

FungibleEvent(transactionType, amount, r) ==
  \E t \in EventTimes :
    /\ Delivered([NoEvent EXCEPT !.type = transactionType, !.store = S1,
                                 !.amount = amount, !.viewResult = r], t)
    /\ Has(storeMetadataCache, S1) => r = StoreMetadataOnChain(S1)
    /\ processBalanceChange(S1, amount, transactionType, Context(t, r))
    /\ UNCHANGED <<vaultVars, stakingVars>>

OnDeposit ==
  \E amount \in DepositAmounts, r \in ViewResults(S1) :
    FungibleEvent(DEPOSIT, amount, r)

OnWithdraw ==
  \E amount \in WithdrawAmounts, r \in ViewResults(S1) :
    FungibleEvent(WITHDRAW, amount, r)

StakingEvent(transactionType, amount) ==
  \E t \in EventTimes :
    /\ Delivered([NoEvent EXCEPT !.type = transactionType, !.user = U1,
                                 !.token = M1, !.amount = amount], t)
    /\ processStakingChange(U1, M1, amount, transactionType, Context(t, <<>>))
    /\ UNCHANGED <<vaultVars, fungibleVars>>

OnStake == \E amount \in DepositAmounts : StakingEvent(STAKE, amount)

OnUnstake == \E amount \in WithdrawAmounts : StakingEvent(UNSTAKE, amount)

Init ==
  /\ vault = EmptyTable
  /\ vaultStats = EmptyTable
  /\ storeMetadataCache = EmptyTable
  /\ storeBalance = EmptyTable
  /\ balanceSnapshot = EmptyTable
  /\ transaction = EmptyTable
  /\ fungibleAssetStats = EmptyTable
  /\ user = EmptyTable
  /\ stakingBalance = EmptyTable
  /\ stakingSnapshot = EmptyTable
  /\ stakingTransaction = EmptyTable
  /\ stakingStats = EmptyTable
  /\ version = 0
  /\ chainTime = 0
  /\ event = NoEvent
  /\ outcome = "none"
  /\ running = EmptyTable
  /\ query = [pc |-> "none"]
  /\ dualAssetEvent = EmptyTable
  /\ dualAssetStats = EmptyTable

Next == OnVaultCreated \/ OnDeposit \/ OnWithdraw \/ OnStake \/ OnUnstake

Spec == Init /\ [][Next]_vars

\* ------------------------------------------------------------------------
\* Reference definitions used by the properties
\* ------------------------------------------------------------------------

Max0(x) == IF x > 0 THEN x ELSE 0

\* deposit/stake adds the amount, withdraw/unstake subtracts it
SignedDelta(type, amount) ==
  IF type \in {DEPOSIT, STAKE} THEN amount ELSE 0 - amount

\* the events applied to one account, in ledger order, as recorded by the
\* transaction entities: <<timestamp, signed delta>>
StakingEventsOf(id) ==
  LET applied(v) == /\ Has(stakingTransaction, <<v, 0>>)
                    /\ stakingTransaction[<<v, 0>>].stakingBalanceID = id
      ev(v) == LET tx == stakingTransaction[<<v, 0>>]
               IN <<tx.timestamp, SignedDelta(tx.type, tx.amount)>>
      versions == SelectSeq([v \in 1..version |-> v], applied)
  IN [i \in 1..Len(versions) |-> ev(versions[i])]

StoreEventsOf(id) ==
  LET applied(v) == /\ Has(transaction, <<v, 0>>)
                    /\ transaction[<<v, 0>>].storeBalanceID = id
      ev(v) == LET tx == transaction[<<v, 0>>]
               IN <<tx.timestamp, SignedDelta(tx.type, tx.amount)>>
      versions == SelectSeq([v \in 1..version |-> v], applied)
  IN [i \in 1..Len(versions) |-> ev(versions[i])]

\* balance held after the first i events, starting from 0
RECURSIVE RefBalance(_, _)
RefBalance(evs, i) ==
  IF i = 0 THEN 0 ELSE Max0(RefBalance(evs, i - 1) + evs[i][2])

\* sum of balance_i * duration_i over the intervals between the first n
\* events
RECURSIVE RefBalanceSeconds(_, _)
RefBalanceSeconds(evs, n) ==
  IF n <= 1
    THEN 0
    ELSE RefBalanceSeconds(evs, n - 1)
           + RefBalance(evs, n - 1) * (evs[n][1] - evs[n - 1][1])

\* ------------------------------------------------------------------------
\* Properties
\* ------------------------------------------------------------------------

\* C1 -- Conservation: after each event, every account's
\* cumulativeBalanceSeconds equals the reference sum of balance_i * duration_i
\* over the intervals between its consecutive events, the balance being the
\* clamped running balance that starts at 0 at the first event.
Conservation ==
  /\ \A id \in DOMAIN stakingBalance :
       LET evs == StakingEventsOf(id)
       IN /\ Len(evs) >= 1
          /\ stakingBalance[id].cumulativeBalanceSeconds
               = RefBalanceSeconds(evs, Len(evs))
  /\ \A id \in DOMAIN storeBalance :
       LET evs == StoreEventsOf(id)
       IN /\ Len(evs) >= 1
          /\ storeBalance[id].cumulativeBalanceSeconds
               = RefBalanceSeconds(evs, Len(evs))

\* an account with three events at three different times that held two
\* different positive balances in between
ConservationWitness ==
  \E id \in DOMAIN stakingBalance :
    LET evs == StakingEventsOf(id)
    IN /\ Len(evs) = 3
       /\ evs[1][1] < evs[2][1] /\ evs[2][1] < evs[3][1]
       /\ RefBalance(evs, 1) > 0
       /\ RefBalance(evs, 2) > 0
       /\ RefBalance(evs, 2) # RefBalance(evs, 1)
       /\ stakingBalance[id].cumulativeBalanceSeconds > 0

\* The step delivers a stake/unstake event of a token that is the shares
\* metadata of an existing Vault (a tracked staking event).
StakingApplied ==
  /\ version' = version + 1
  /\ event'.type \in {STAKE, UNSTAKE}
  /\ \E v \in DOMAIN vault : vault[v].sharesMetadata = event'.token

\* The step delivers a deposit/withdraw event on a store that is cached as
\* a Canopy vault store, or is not cached and is found to be one.
StoreApplied ==
  /\ version' = version + 1
  /\ event'.type \in {DEPOSIT, WITHDRAW}
  /\ IF event'.store \in DOMAIN storeMetadataCache
       THEN storeMetadataCache[event'.store].isCanopyVault
       ELSE /\ event'.viewResult \notin {ViewThrows, NoMetadata}
            /\ \E v \in DOMAIN vault :
                 vault[v].sharesMetadata = event'.viewResult

StakingId(ev) == <<ev.user, ev.token>>

\* the balance becomes max(0, previous + delta) and the cumulative advances
\* by the previous balance times the elapsed time (an absent account counts
\* as balance 0, cumulative 0, observed at the event time)
ClampedStep(bal, balNext, id, ts, delta) ==
  LET old == id \in DOMAIN bal
      prevBalance == IF old THEN bal[id].lastKnownBalance ELSE 0
      prevCumulative == IF old THEN bal[id].cumulativeBalanceSeconds ELSE 0
      prevTime == IF old THEN bal[id].lastObservationTime ELSE ts
  IN /\ id \in DOMAIN balNext
     /\ balNext[id].lastKnownBalance = Max0(prevBalance + delta)
     /\ balNext[id].lastKnownBalance >= 0
     /\ balNext[id].cumulativeBalanceSeconds
          = prevCumulative + prevBalance * (ts - prevTime)

\* C2 -- Non-negativity by clamping: every tracked event is applied (never
\* rejected) and leaves the balance at max(0, previous balance + signed
\* delta), hence never negative and exactly 0 after an over-withdrawal, while
\* cumulativeBalanceSeconds advances by the pre-event balance times the
\* elapsed time.
ClampedBalance ==
  [][ /\ StakingApplied =>
           ClampedStep(stakingBalance, stakingBalance', StakingId(event'),
                       event'.timestamp,
                       SignedDelta(event'.type, event'.amount))
      /\ StoreApplied =>
           ClampedStep(storeBalance, storeBalance', event'.store,
                       event'.timestamp,
                       SignedDelta(event'.type, event'.amount)) ]_vars

\* the last event withdrew more than the positive balance held for a
\* positive time: balance 0, cumulative advanced
ClampedBalanceWitness ==
  /\ event.type = UNSTAKE
  /\ StakingId(event) \in DOMAIN stakingBalance
  /\ LET evs == StakingEventsOf(StakingId(event))
         n == Len(evs)
     IN /\ n >= 2
        /\ RefBalance(evs, n - 1) > 0
        /\ event.amount > RefBalance(evs, n - 1)
        /\ evs[n][1] > evs[n - 1][1]
        /\ stakingBalance[StakingId(event)].lastKnownBalance = 0
        /\ stakingBalance[StakingId(event)].cumulativeBalanceSeconds
             > RefBalanceSeconds(evs, n - 1)

\* the step applies an event to an account whose open snapshot (the one
\* numbered by its snapshot count) exists
HasOpenSnapshot(bal, snap, id) ==
  /\ id \in DOMAIN bal
  /\ <<id, bal[id].totalSnapshotCount>> \in DOMAIN snap

OpenSnapshot(bal, snap, id) == snap[<<id, bal[id].totalSnapshotCount>>]

BoundaryStep(bal, balNext, snap, snapNext, id, ts) ==
  HasOpenSnapshot(bal, snap, id) =>
    LET n == bal[id].totalSnapshotCount
        age == ts - OpenSnapshot(bal, snap, id).filledAt
    IN /\ age <= 86400 =>
            /\ balNext[id].totalSnapshotCount = n
            /\ snapNext[<<id, n>>].lastUpdateTime = ts
            /\ <<id, n + 1>> \notin DOMAIN snapNext
       /\ age >= 86401 =>
            /\ balNext[id].totalSnapshotCount = n + 1
            /\ <<id, n + 1>> \in DOMAIN snapNext

\* C3 -- Rollover boundary is strict: an event at most 86400 seconds after
\* the open snapshot's filledAt updates that snapshot and keeps the snapshot
\* count; an event 86401 seconds or more after filledAt opens a new snapshot
\* and increments the count.  The age is taken from filledAt.
RolloverBoundary ==
  [][ /\ StakingApplied =>
           BoundaryStep(stakingBalance, stakingBalance', stakingSnapshot,
                        stakingSnapshot', StakingId(event'), event'.timestamp)
      /\ StoreApplied =>
           BoundaryStep(storeBalance, storeBalance', balanceSnapshot,
                        balanceSnapshot', event'.store, event'.timestamp) ]_vars

\* snapshot 1 was touched exactly 86400 seconds after it was filled and was
\* kept, and a later event rolled over to snapshot 2
RolloverBoundaryWitness ==
  \E id \in DOMAIN stakingBalance :
    /\ stakingBalance[id].totalSnapshotCount = 2
    /\ stakingSnapshot[<<id, 1>>].lastUpdateTime
         - stakingSnapshot[<<id, 1>>].filledAt = 86400

MirrorsAccount(bal, snap) ==
  \A id \in DOMAIN bal :
    /\ HasOpenSnapshot(bal, snap, id)
    /\ OpenSnapshot(bal, snap, id).balance = bal[id].lastKnownBalance
    /\ OpenSnapshot(bal, snap, id).cumulativeBalanceSeconds
         = bal[id].cumulativeBalanceSeconds
    /\ OpenSnapshot(bal, snap, id).lastUpdateTime = bal[id].lastObservationTime

\* C4 -- The open snapshot mirrors the account: after every processed event
\* the highest-sequence snapshot of each account has the account's balance,
\* cumulativeBalanceSeconds and last observation time.
OpenSnapshotMirrorsAccount ==
  /\ MirrorsAccount(stakingBalance, stakingSnapshot)
  /\ MirrorsAccount(storeBalance, balanceSnapshot)

\* an open snapshot that was advanced twice after its creation, each time
\* over a positive time at a positive balance
OpenSnapshotMirrorsAccountWitness ==
  \E id \in DOMAIN stakingBalance :
    LET evs == StakingEventsOf(id)
    IN /\ Len(evs) = 3
       /\ stakingBalance[id].totalSnapshotCount = 1
       /\ evs[1][1] < evs[2][1] /\ evs[2][1] < evs[3][1]
       /\ RefBalance(evs, 1) > 0 /\ RefBalance(evs, 2) > 0
       /\ RefBalance(evs, 1) # RefBalance(evs, 2)

\* no account and no snapshot is removed, and a snapshot that has a
\* successor (sequence + 1 exists) keeps all its fields
ClosedStep(bal, balNext, snap, snapNext) ==
  /\ \A id \in DOMAIN bal : id \in DOMAIN balNext
  /\ \A key \in DOMAIN snap :
       /\ key \in DOMAIN snapNext
       /\ <<key[1], key[2] + 1>> \in DOMAIN snap => snapNext[key] = snap[key]

\* C5 -- Closed snapshots are immutable and nothing is deleted: once the
\* snapshot with sequence n+1 exists, no event changes a field of a snapshot
\* with sequence <= n, and no event removes a snapshot or an account.
ClosedSnapshotsImmutable ==
  [][ /\ ClosedStep(storeBalance, storeBalance', balanceSnapshot,
                    balanceSnapshot')
      /\ ClosedStep(stakingBalance, stakingBalance', stakingSnapshot,
                    stakingSnapshot') ]_vars

\* a store with a closed snapshot 1 and two events at or after the creation
\* of snapshot 2, the first of them the one that created it
ClosedSnapshotsImmutableWitness ==
  \E id \in DOMAIN storeBalance :
    LET evs == StoreEventsOf(id)
    IN /\ Len(evs) = 3
       /\ <<id, 2>> \in DOMAIN balanceSnapshot
       /\ evs[2][1] = balanceSnapshot[<<id, 2>>].filledAt
       /\ evs[1][1] < evs[2][1]

RolloverStep(bal, balNext, snap, snapNext, id, ts) ==
  (/\ HasOpenSnapshot(bal, snap, id)
   /\ ts - OpenSnapshot(bal, snap, id).filledAt > 86400) =>
    LET n == bal[id].totalSnapshotCount
    IN /\ balNext[id].totalSnapshotCount = n + 1
       /\ DOMAIN snapNext = (DOMAIN snap) \cup {<<id, n + 1>>}
       /\ snapNext[<<id, n + 1>>].filledAt = ts
       /\ snapNext[<<id, n + 1>>].lastUpdateTime = ts
       /\ snapNext[<<id, n + 1>>].balance = balNext[id].lastKnownBalance
       /\ snapNext[<<id, n + 1>>].cumulativeBalanceSeconds
            = balNext[id].cumulativeBalanceSeconds

\* C6 -- Rollover effect: an event that forces a rollover increases the
\* snapshot count by exactly 1 and creates exactly one snapshot, numbered by
\* the new count, with filledAt = lastUpdateTime = the event's timestamp and
\* the account's post-event balance and cumulativeBalanceSeconds.
RolloverEffect ==
  [][ /\ StakingApplied =>
           RolloverStep(stakingBalance, stakingBalance', stakingSnapshot,
                        stakingSnapshot', StakingId(event'), event'.timestamp)
      /\ StoreApplied =>
           RolloverStep(storeBalance, storeBalance', balanceSnapshot,
                        balanceSnapshot', event'.store, event'.timestamp) ]_vars

\* the last event rolled a staking account over to snapshot 2 with a
\* positive balance and a positive cumulative
RolloverEffectWitness ==
  /\ event.type \in {STAKE, UNSTAKE}
  /\ StakingId(event) \in DOMAIN stakingBalance
  /\ stakingBalance[StakingId(event)].totalSnapshotCount = 2
  /\ stakingSnapshot[<<StakingId(event), 2>>].filledAt = event.timestamp
  /\ stakingSnapshot[<<StakingId(event), 2>>].cumulativeBalanceSeconds > 0
  /\ stakingSnapshot[<<StakingId(event), 2>>].balance > 0

InWindowStep(bal, balNext, snap, snapNext, id, ts) ==
  (/\ HasOpenSnapshot(bal, snap, id)
   /\ ts - OpenSnapshot(bal, snap, id).filledAt <= 86400) =>
    LET n == bal[id].totalSnapshotCount
        open == <<id, n>>
    IN /\ balNext[id].totalSnapshotCount = n
       /\ DOMAIN snapNext = DOMAIN snap
       /\ \A key \in (DOMAIN snap) \ {open} : snapNext[key] = snap[key]
       /\ snapNext[open] =
            [snap[open] EXCEPT
               !.balance = balNext[id].lastKnownBalance,
               !.cumulativeBalanceSeconds =
                  balNext[id].cumulativeBalanceSeconds,
               !.lastUpdateTime = ts]

\* C7 -- In-window touch: an event that does not force a rollover leaves the
\* open snapshot's filledAt and the snapshot count unchanged and creates no
\* snapshot; it only sets the open snapshot's balance,
\* cumulativeBalanceSeconds and lastUpdateTime to the post-event values.
InWindowTouch ==
  [][ /\ StakingApplied =>
           InWindowStep(stakingBalance, stakingBalance', stakingSnapshot,
                        stakingSnapshot', StakingId(event'), event'.timestamp)
      /\ StoreApplied =>
           InWindowStep(storeBalance, storeBalance', balanceSnapshot,
                        balanceSnapshot', event'.store, event'.timestamp) ]_vars

\* the last event touched the open snapshot of a staking account later than
\* its filledAt, with a positive cumulative
InWindowTouchWitness ==
  /\ event.type \in {STAKE, UNSTAKE}
  /\ StakingId(event) \in DOMAIN stakingBalance
  /\ LET id == StakingId(event)
         open == <<id, stakingBalance[id].totalSnapshotCount>>
     IN /\ stakingSnapshot[open].filledAt < event.timestamp
        /\ stakingSnapshot[open].lastUpdateTime = event.timestamp
        /\ stakingSnapshot[open].cumulativeBalanceSeconds > 0

FirstEventStep(bal, balNext, snapNext, id, ts, delta) ==
  id \notin DOMAIN bal =>
    /\ id \in DOMAIN balNext
    /\ balNext[id].cumulativeBalanceSeconds = 0
    /\ balNext[id].totalSnapshotCount = 1
    /\ balNext[id].lastKnownBalance = Max0(delta)
    /\ balNext[id].lastObservationTime = ts
    /\ <<id, 1>> \in DOMAIN snapNext
    /\ snapNext[<<id, 1>>].filledAt = ts
    /\ snapNext[<<id, 1>>].lastUpdateTime = ts
    /\ snapNext[<<id, 1>>].cumulativeBalanceSeconds = 0
    /\ snapNext[<<id, 1>>].balance = Max0(delta)

\* C8 -- First event initialisation: the first tracked event of an account
\* leaves the account with cumulativeBalanceSeconds 0, snapshot count 1,
\* balance max(0, delta) and last observation time = event time, and snapshot
\* 1 with filledAt = lastUpdateTime = event time, cumulative 0 and the same
\* balance.
FirstEventInitialisation ==
  [][ /\ StakingApplied =>
           FirstEventStep(stakingBalance, stakingBalance', stakingSnapshot',
                          StakingId(event'), event'.timestamp,
                          SignedDelta(event'.type, event'.amount))
      /\ StoreApplied =>
           FirstEventStep(storeBalance, storeBalance', balanceSnapshot',
                          event'.store, event'.timestamp,
                          SignedDelta(event'.type, event'.amount)) ]_vars

\* a staking account created by a stake that was its only event so far
FirstEventInitialisationWitness ==
  /\ event.type = STAKE
  /\ event.timestamp > 0
  /\ StakingId(event) \in DOMAIN stakingBalance
  /\ Len(StakingEventsOf(StakingId(event))) = 1
  /\ stakingBalance[StakingId(event)].lastKnownBalance = event.amount
  /\ event.amount > 0

MonotoneStep(bal, balNext) ==
  \A id \in DOMAIN bal :
    /\ id \in DOMAIN balNext
    /\ balNext[id].cumulativeBalanceSeconds >= bal[id].cumulativeBalanceSeconds
    /\ balNext[id].lastObservationTime >= bal[id].lastObservationTime
    /\ balNext[id].totalSnapshotCount >= bal[id].totalSnapshotCount

\* C9 -- Monotonicity: across successive events delivered in non-decreasing
\* timestamp order, an account's cumulativeBalanceSeconds, last observation
\* time and snapshot count never decrease.
Monotonicity ==
  [][ /\ MonotoneStep(stakingBalance, stakingBalance')
      /\ MonotoneStep(storeBalance, storeBalance') ]_vars

\* a staking account whose cumulative, observation time and snapshot count
\* all grew after its first event
MonotonicityWitness ==
  \E id \in DOMAIN stakingBalance :
    /\ stakingBalance[id].cumulativeBalanceSeconds > 0
    /\ stakingBalance[id].totalSnapshotCount > 1
    /\ stakingBalance[id].lastObservationTime
         > stakingSnapshot[<<id, 1>>].filledAt

\* number of snapshots the events of an account create: one at the first
\* event and one whenever an event is more than 86400 seconds after the
\* creation of the latest one; <<count, filledAt of the latest>>
RECURSIVE RefSnapshots(_, _)
RefSnapshots(evs, n) ==
  IF n = 0 THEN <<0, 0>>
  ELSE IF n = 1 THEN <<1, evs[1][1]>>
  ELSE LET before == RefSnapshots(evs, n - 1)
       IN IF evs[n][1] - before[2] > 86400
            THEN <<before[1] + 1, evs[n][1]>>
            ELSE before

NumberedSnapshots(bal, snap, id, evs) ==
  /\ {key[2] : key \in {k \in DOMAIN snap : k[1] = id}}
       = 1..bal[id].totalSnapshotCount
  /\ bal[id].totalSnapshotCount = RefSnapshots(evs, Len(evs))[1]

\* every account's snapshots are exactly those numbered 1..snapshot count,
\* and the count is the number of snapshots its events created
SnapshotsNumbered ==
  /\ \A id \in DOMAIN stakingBalance :
       NumberedSnapshots(stakingBalance, stakingSnapshot, id,
                         StakingEventsOf(id))
  /\ \A key \in DOMAIN stakingSnapshot : key[1] \in DOMAIN stakingBalance
  /\ \A id \in DOMAIN storeBalance :
       NumberedSnapshots(storeBalance, balanceSnapshot, id, StoreEventsOf(id))
  /\ \A key \in DOMAIN balanceSnapshot : key[1] \in DOMAIN storeBalance

\* an event creates or modifies only the snapshot numbered by the account's
\* snapshot count
OnlyOpenModified(balNext, snap, snapNext) ==
  \A key \in DOMAIN snapNext :
    (key \notin DOMAIN snap \/ snapNext[key] # snap[key]) =>
      key[2] = balNext[key[1]].totalSnapshotCount

\* C10 -- Snapshot numbering: in every state the snapshots of an account are
\* exactly those with sequence 1..snapshotCount, snapshotCount is the number
\* of snapshots ever created, and the only snapshot an event modifies is the
\* one with sequence = snapshotCount.
SnapshotNumbering ==
  /\ []SnapshotsNumbered
  /\ [][ /\ OnlyOpenModified(stakingBalance', stakingSnapshot,
                             stakingSnapshot')
         /\ OnlyOpenModified(storeBalance', balanceSnapshot,
                             balanceSnapshot') ]_vars

\* a staking account that rolled over twice: snapshots 1, 2 and 3
SnapshotNumberingWitness ==
  \E id \in DOMAIN stakingBalance :
    /\ stakingBalance[id].totalSnapshotCount = 3
    /\ <<id, 3>> \in DOMAIN stakingSnapshot

\* ------------------------------------------------------------------------
\* Query patterns: computing the average balance between two timestamps
\* ------------------------------------------------------------------------

\* the outcome of evaluating a query expression: a bigint, the value
\* undefined, or a thrown error
Value(n) == [kind |-> "value", value |-> n]
Undefined == [kind |-> "undefined", value |-> 0]
Thrown(error) == [kind |-> error, value |-> 0]

\* a result row that the query did not return
NoRow == [row |-> "none"]

\* bigint division: truncates towards zero, throws on a zero divisor
BigIntDiv(a, b) ==
  LET abs(x) == IF x < 0 THEN 0 - x ELSE x
      q == abs(a) \div abs(b)
  IN IF b = 0 THEN Thrown("RangeError")
     ELSE IF (a < 0) = (b < 0) THEN Value(q) ELSE Value(0 - q)


\* variant: the boundary snapshots are the latest ones, whatever their filledAt
FindBoundarySnapshotsLatest(snapshots, id, t) ==
  LET rows == {k \in DOMAIN snapshots : k[1] = id}
      before(k, j) ==
        \/ snapshots[k].filledAt > snapshots[j].filledAt
        \/ snapshots[k].filledAt = snapshots[j].filledAt /\ k[2] > j[2]
      rank(k) == Cardinality({j \in rows : before(j, k)}) + 1
      row(i) == IF \E k \in rows : rank(k) = i
                  THEN snapshots[CHOOSE k \in rows : rank(k) = i]
                  ELSE NoRow
  IN <<row(1), row(2)>>

\* step 1: SELECT * FROM BalanceSnapshot WHERE storeBalanceID = ? AND
\* filledAt <= t ORDER BY filledAt DESC LIMIT 2 -- the active snapshot and
\* its predecessor (rows of equal filledAt are listed newest first)
FindBoundarySnapshots(snapshots, id, t) ==
  LET rows == {k \in DOMAIN snapshots :
                 k[1] = id /\ snapshots[k].filledAt <= t}
      before(k, j) ==
        \/ snapshots[k].filledAt > snapshots[j].filledAt
        \/ snapshots[k].filledAt = snapshots[j].filledAt /\ k[2] > j[2]
      rank(k) == Cardinality({j \in rows : before(j, k)}) + 1
      row(i) == IF \E k \in rows : rank(k) = i
                  THEN snapshots[CHOOSE k \in rows : rank(k) = i]
                  ELSE NoRow
  IN <<row(1), row(2)>>

\* variant: the previous snapshot is extrapolated from its creation
CumulativeAtFilledAtSinceCreation(snapshot, previousSnapshot) ==
  IF previousSnapshot # NoRow
    THEN LET timeSincePrevious ==
               snapshot.filledAt - previousSnapshot.filledAt
         IN previousSnapshot.cumulativeBalanceSeconds
              + previousSnapshot.balance * timeSincePrevious
    ELSE 0

\* variant: the cumulative is taken to be 0 at the creation of every snapshot
CumulativeAtFilledAtFromZero(snapshot, previousSnapshot) == 0

\* the cumulative at the start of the snapshot's window
CumulativeAtFilledAt(snapshot, previousSnapshot) ==
  IF previousSnapshot # NoRow
    THEN LET timeSincePrevious ==
               snapshot.filledAt - previousSnapshot.lastUpdateTime
         IN previousSnapshot.cumulativeBalanceSeconds
              + previousSnapshot.balance * timeSincePrevious
    ELSE 0

\* the divisor of the average rate of accumulation: the snapshot's duration
RateDivisor(snapshot) == snapshot.lastUpdateTime - snapshot.filledAt


\* variant: a query at the last update time is interpolated, not extrapolated
ExtrapolatesStrictlyAfter(t, snapshot) == t > snapshot.lastUpdateTime

\* Case 1: time is after the last update in the snapshot
Extrapolates(t, snapshot) == t >= snapshot.lastUpdateTime

\* Case 2: time is between snapshot creation and last update
Interpolates(t, snapshot) ==
  ~Extrapolates(t, snapshot) /\ t >= snapshot.filledAt

\* step 2: the cumulative balance-seconds at time t
getCumulativeAt(t, snapshot, previousSnapshot) ==
  IF snapshot = NoRow
    THEN Thrown("TypeError")   \* reading a property of undefined
  ELSE IF Extrapolates(t, snapshot)
    THEN LET timeSinceLastUpdate == t - snapshot.lastUpdateTime
         IN Value(snapshot.cumulativeBalanceSeconds
                    + snapshot.balance * timeSinceLastUpdate)
  ELSE IF Interpolates(t, snapshot)
    THEN LET cumulativeAtFilledAt ==
               CumulativeAtFilledAt(snapshot, previousSnapshot)
             snapshotDuration == RateDivisor(snapshot)
             cumulativeGrowth ==
               snapshot.cumulativeBalanceSeconds - cumulativeAtFilledAt
             averageBalance == BigIntDiv(cumulativeGrowth, snapshotDuration)
             timeFromFilledAt == t - snapshot.filledAt
         IN IF averageBalance.kind = "value"
              THEN Value(cumulativeAtFilledAt
                           + averageBalance.value * timeFromFilledAt)
              ELSE averageBalance
  ELSE Undefined   \* neither case: the function returns no value

\* the cumulative at time t as the query computes it for one account
CumulativeAt(snapshots, id, t) ==
  LET rows == FindBoundarySnapshots(snapshots, id, t)
  IN getCumulativeAt(t, rows[1], rows[2])

\* step 3: (cumulative2 - cumulative1) / (t2 - t1)
AverageBalance(snapshots, id, t1, t2) ==
  LET cumulative1 == CumulativeAt(snapshots, id, t1)
      cumulative2 == CumulativeAt(snapshots, id, t2)
  IN IF cumulative1.kind \notin {"value", "undefined"} THEN cumulative1
     ELSE IF cumulative2.kind \notin {"value", "undefined"} THEN cumulative2
     ELSE IF "undefined" \in {cumulative1.kind, cumulative2.kind}
       THEN Thrown("TypeError")   \* undefined mixed with a bigint
     ELSE BigIntDiv(cumulative2.value - cumulative1.value, t2 - t1)

\* ------------------------------------------------------------------------
\* Properties of the query
\* ------------------------------------------------------------------------

\* the times at which the ledger is queried: before the first possible
\* event, on event times and between them, and after the last one
QueryTimes == {500, 1000, 2800, 4600, 87401, 200000}

\* the number of an account's events that happened at or before time t
EventsUpTo(evs, t) == Cardinality({i \in 1..Len(evs) : evs[i][1] <= t})

\* the balance the account held at time t
BalanceAt(evs, t) == RefBalance(evs, EventsUpTo(evs, t))

\* the exact balance-seconds the account had accrued at time t
BalanceSecondsAt(evs, t) ==
  LET n == EventsUpTo(evs, t)
  IN IF n = 0 THEN 0
     ELSE RefBalanceSeconds(evs, n) + RefBalance(evs, n) * (t - evs[n][1])

\* the account exists at t1 and no event after t1 and before t2 changed the
\* balance it held at t1
ConstantOver(evs, t1, t2) ==
  /\ EventsUpTo(evs, t1) >= 1
  /\ \A i \in 1..Len(evs) :
       (t1 < evs[i][1] /\ evs[i][1] < t2)
         => RefBalance(evs, i) = BalanceAt(evs, t1)

\* for every account (staking and store) and every pair of query times
ForAllQueries(P(_, _, _, _, _)) ==
  /\ \A id \in DOMAIN stakingBalance : \A t1, t2 \in QueryTimes :
       P(stakingSnapshot, id, StakingEventsOf(id), t1, t2)
  /\ \A id \in DOMAIN storeBalance : \A t1, t2 \in QueryTimes :
       P(balanceSnapshot, id, StoreEventsOf(id), t1, t2)

ExactOnConstant(snapshots, id, evs, t1, t2) ==
  (t1 < t2 /\ ConstantOver(evs, t1, t2))
    => AverageBalance(snapshots, id, t1, t2) = Value(BalanceAt(evs, t1))

\* C11 -- Constant-balance query is exact: whenever an account's balance was
\* constant at b over the whole interval [t1, t2], AverageBalance(t1, t2)
\* returns b, whatever later events have touched the same snapshot.
ConstantBalanceQueryExact == ForAllQueries(ExactOnConstant)

IntegralIdentityOf(snapshots, id, evs) ==
  \A i, j \in 1..Len(evs) :
    evs[i][1] < evs[j][1] =>
      LET tFirst == evs[i][1]
          tNow == evs[j][1]
          average == AverageBalance(snapshots, id, tFirst, tNow)
          exact == BalanceSecondsAt(evs, tNow) - BalanceSecondsAt(evs, tFirst)
          error == exact - average.value * (tNow - tFirst)
      IN /\ average.kind = "value"
         /\ error < tNow - tFirst
         /\ 0 - error < tNow - tFirst

\* C12 -- Integral identity: for any two event timestamps t_first < t_now of
\* one account, AverageBalance(t_first, t_now) * (t_now - t_first) equals the
\* balance-seconds the account accrued between the two events, up to the
\* rounding of one integer division (an error smaller than t_now - t_first).
IntegralIdentity ==
  /\ \A id \in DOMAIN stakingBalance :
       IntegralIdentityOf(stakingSnapshot, id, StakingEventsOf(id))
  /\ \A id \in DOMAIN storeBalance :
       IntegralIdentityOf(balanceSnapshot, id, StoreEventsOf(id))

\* no snapshot of the account has filledAt <= t
EmptyHistoryAt(snapshots, id, t) ==
  \A k \in DOMAIN snapshots : k[1] = id => snapshots[k].filledAt > t

EmptyHistoryOf(snapshots, id) ==
  \A t1, t2 \in QueryTimes :
    LET cumulative2 == CumulativeAt(snapshots, id, t2)
    IN /\ EmptyHistoryAt(snapshots, id, t1)
            => CumulativeAt(snapshots, id, t1) = Value(0)
       /\ (t1 < t2 /\ EmptyHistoryAt(snapshots, id, t2))
            => AverageBalance(snapshots, id, t1, t2) = Value(0)
       /\ (/\ t1 < t2
           /\ EmptyHistoryAt(snapshots, id, t1)
           /\ ~EmptyHistoryAt(snapshots, id, t2))
            => /\ cumulative2.kind = "value"
               /\ AverageBalance(snapshots, id, t1, t2)
                    = BigIntDiv(cumulative2.value, t2 - t1)

\* C13 -- Empty-history query: when no snapshot of the account has
\* filledAt <= t, CumulativeAt(t) is 0; so for t1 < t2 both earlier than the
\* account's first event, or for an account without events, AverageBalance
\* returns 0 and raises no error, and when only t1 precedes the first event
\* the average is CumulativeAt(t2) / (t2 - t1).
EmptyHistoryQuery ==
  /\ EmptyHistoryOf(stakingSnapshot, <<U1, M1>>)
  /\ EmptyHistoryOf(balanceSnapshot, S1)

RangeRejected(snapshots, id, evs, t1, t2) ==
  t1 >= t2 => AverageBalance(snapshots, id, t1, t2).kind # "value"

\* C14 -- Query range error: AverageBalance called with t1 >= t2 (t1 = t2,
\* where the final division would be by zero, as well as t1 > t2) is
\* rejected with an error and returns no average.
QueryRangeError == ForAllQueries(RangeRejected)

\* the snapshot numbered just before k, if the account has one
PreviousSnapshot(snapshots, k) ==
  IF Has(snapshots, <<k[1], k[2] - 1>>)
    THEN snapshots[<<k[1], k[2] - 1>>]
    ELSE NoRow

NoZeroDivisorIn(snapshots) ==
  \A k \in DOMAIN snapshots : \A t \in QueryTimes :
    LET S == snapshots[k]
        cumulative == getCumulativeAt(t, S, PreviousSnapshot(snapshots, k))
    IN t >= S.filledAt =>
         /\ Interpolates(t, S) => RateDivisor(S) # 0
         /\ cumulative.kind = "value"
         /\ S.lastUpdateTime = S.filledAt =>
              cumulative = Value(S.cumulativeBalanceSeconds
                                   + S.balance * (t - S.filledAt))

\* C15 -- No division by zero in CumulativeAt: for every snapshot S of the
\* ledger and every query time t >= S.filledAt, the rate is never computed
\* with the divisor S.lastUpdateTime - S.filledAt = 0; for a snapshot touched
\* only once (lastUpdateTime = filledAt) the cumulative grows from the
\* snapshot's value at the rate S.balance.
NoDivisionByZero ==
  NoZeroDivisorIn(stakingSnapshot) /\ NoZeroDivisorIn(balanceSnapshot)

\* a snapshot touched only once, holding a positive balance, is queried at
\* its filledAt and later, while the account's previous snapshot is queried
\* inside its window (where the rate is a quotient)
NoDivisionByZeroWitness ==
  \E k \in DOMAIN stakingSnapshot : \E t1, t2, t3 \in QueryTimes :
    LET S == stakingSnapshot[k]
        P == PreviousSnapshot(stakingSnapshot, k)
    IN /\ S.lastUpdateTime = S.filledAt
       /\ S.balance > 0
       /\ t1 = S.filledAt /\ t2 > S.filledAt
       /\ P # NoRow
       /\ Interpolates(t3, P)

DefinedBranchOf(snapshots, id) ==
  \A t \in QueryTimes :
    LET rows == FindBoundarySnapshots(snapshots, id, t)
        S == rows[1]
    IN S # NoRow =>
         /\ t >= S.filledAt
         /\ Extrapolates(t, S) \/ Interpolates(t, S)
         /\ getCumulativeAt(t, S, rows[2]) # Undefined

\* C16 -- Query branch coverage: for every query time t and the snapshot S
\* that step 1 selects for it (the greatest filledAt <= t among the
\* account's snapshots), t >= S.filledAt holds, so getCumulativeAt takes one
\* of its two branches and never falls through without returning a value.
QueryBranchCoverage ==
  /\ DefinedBranchOf(stakingSnapshot, <<U1, M1>>)
  /\ DefinedBranchOf(balanceSnapshot, S1)

\* an account with two snapshots is queried at a time that lies before its
\* second snapshot: step 1 selects the first one, and the second one would
\* have no defined branch
QueryBranchCoverageWitness ==
  \E t \in QueryTimes :
    LET rows == FindBoundarySnapshots(stakingSnapshot, <<U1, M1>>, t)
    IN /\ Has(stakingSnapshot, <<(<<U1, M1>>), 2>>)
       /\ rows[1] = stakingSnapshot[<<(<<U1, M1>>), 1>>]
       /\ t < stakingSnapshot[<<(<<U1, M1>>), 2>>].filledAt
       /\ getCumulativeAt(t, stakingSnapshot[<<(<<U1, M1>>), 2>>], rows[1])
            = Undefined

\* ------------------------------------------------------------------------
\* Event source that may deliver events with timestamps out of order
\* ------------------------------------------------------------------------

UnorderedTimes == {Micros(1000, 0), Micros(4600, 999999), Micros(87401, 1)}

\* the handlers take the timestamp from the context of the event, whatever
\* the timestamps of the events handled before
DeliveredUnordered(ev, timestamp_micros) ==
  /\ version < MaxEvents
  /\ version' = version + 1
  /\ chainTime' = getTimestampInSeconds(timestamp_micros)
  /\ event' = [ev EXCEPT !.timestamp = getTimestampInSeconds(timestamp_micros),
                         !.version = version + 1]
  /\ outcome' = "returned"
  /\ UNCHANGED <<running, query, dualAssetVars>>

OnVaultCreatedUnordered ==
  \E t \in UnorderedTimes :
    /\ DeliveredUnordered([NoEvent EXCEPT !.type = "VaultCreated",
                                          !.vault = V1, !.token = M1], t)
    /\ VaultCreated(V1, M1, Context(t, <<>>))

StakingEventUnordered(transactionType, amount) ==
  \E t \in UnorderedTimes :
    /\ DeliveredUnordered([NoEvent EXCEPT !.type = transactionType,
                                          !.user = U1, !.token = M1,
                                          !.amount = amount], t)
    /\ processStakingChange(U1, M1, amount, transactionType, Context(t, <<>>))
    /\ UNCHANGED <<vaultVars, fungibleVars>>

OnStakeUnordered ==
  \E amount \in DepositAmounts : StakingEventUnordered(STAKE, amount)

OnUnstakeUnordered ==
  \E amount \in WithdrawAmounts : StakingEventUnordered(UNSTAKE, amount)

NextUnordered ==
  OnVaultCreatedUnordered \/ OnStakeUnordered \/ OnUnstakeUnordered

SpecUnordered == Init /\ [][NextUnordered]_vars

\* the step delivers a stake/unstake event whose timestamp is earlier than
\* the lastObservationTime of the account it is for
OutOfOrderStep ==
  /\ StakingApplied
  /\ StakingId(event') \in DOMAIN stakingBalance
  /\ event'.timestamp < stakingBalance[StakingId(event')].lastObservationTime

\* C17 -- Out-of-order rejection: an event whose timestamp is earlier than
\* the account's lastObservationTime is rejected: the account's balance,
\* cumulativeBalanceSeconds, lastObservationTime and all its snapshots stay
\* as they were, and the cumulative is never changed by a negative elapsed
\* time.
OutOfOrderRejection ==
  [][OutOfOrderStep =>
       /\ stakingBalance'[StakingId(event')]
            = stakingBalance[StakingId(event')]
       /\ stakingSnapshot' = stakingSnapshot]_vars

\* ------------------------------------------------------------------------
\* Event source with two stores of the same vault
\* ------------------------------------------------------------------------

S2 == Addr("14a3", 64)    \* a second fungible store holding M1

Stores == {S1, S2}

StoreEvent(storeAddress, transactionType, amount) ==
  \E t \in EventTimes :
    LET r == StoreMetadataOnChain(storeAddress)
    IN /\ Delivered([NoEvent EXCEPT !.type = transactionType,
                                    !.store = storeAddress,
                                    !.amount = amount, !.viewResult = r], t)
       /\ processBalanceChange(storeAddress, amount, transactionType,
                               Context(t, r))
       /\ UNCHANGED <<vaultVars, stakingVars>>

OnDepositStores ==
  \E storeAddress \in Stores, amount \in DepositAmounts :
    StoreEvent(storeAddress, DEPOSIT, amount)

OnWithdrawStores ==
  \E storeAddress \in Stores, amount \in WithdrawAmounts :
    StoreEvent(storeAddress, WITHDRAW, amount)

NextStores == OnVaultCreated \/ OnDepositStores \/ OnWithdrawStores

SpecStores == Init /\ [][NextStores]_vars

\* the snapshots of one account
SnapshotsOf(snapshots, id) ==
  [k \in {j \in DOMAIN snapshots : j[1] = id} |-> snapshots[k]]

\* the step leaves the account and its snapshots as they were
StoreAccountUnchanged(id) ==
  /\ id \in DOMAIN storeBalance'
  /\ storeBalance'[id] = storeBalance[id]
  /\ SnapshotsOf(balanceSnapshot', id) = SnapshotsOf(balanceSnapshot, id)

\* the account and its open snapshot are what the account's own events give
StoreAccountFromOwnEvents(id) ==
  LET evs == StoreEventsOf(id)
      n == Len(evs)
      sb == storeBalance[id]
      open == <<id, sb.totalSnapshotCount>>
  IN /\ n >= 1
     /\ sb.lastKnownBalance = RefBalance(evs, n)
     /\ sb.cumulativeBalanceSeconds = RefBalanceSeconds(evs, n)
     /\ sb.lastObservationTime = evs[n][1]
     /\ sb.totalSnapshotCount = RefSnapshots(evs, n)[1]
     /\ Has(balanceSnapshot, open)
     /\ balanceSnapshot[open].filledAt = RefSnapshots(evs, n)[2]
     /\ balanceSnapshot[open].balance = sb.lastKnownBalance
     /\ balanceSnapshot[open].cumulativeBalanceSeconds
          = sb.cumulativeBalanceSeconds
     /\ balanceSnapshot[open].lastUpdateTime = sb.lastObservationTime

\* C19 -- Account independence: processing an event for one account leaves
\* every other account's balance, cumulativeBalanceSeconds,
\* lastObservationTime, snapshot count and snapshots unchanged, and in every
\* state each account is what its own events, replayed alone, give, however
\* the events of other accounts are interleaved with them.
AccountIndependence ==
  /\ [][\A id \in DOMAIN storeBalance :
          id # event'.store => StoreAccountUnchanged(id)]_vars
  /\ [](\A id \in DOMAIN storeBalance : StoreAccountFromOwnEvents(id))

\* two events of store S1 with an event of store S2 handled between them;
\* both stores hold a positive balance and S1 has accrued balance-seconds
AccountIndependenceWitness ==
  /\ S1 \in DOMAIN storeBalance /\ S2 \in DOMAIN storeBalance
  /\ storeBalance[S1].lastKnownBalance > 0
  /\ storeBalance[S2].lastKnownBalance > 0
  /\ storeBalance[S1].cumulativeBalanceSeconds > 0
  /\ \E v \in 1..version :
       /\ Has(transaction, <<v, 0>>)
       /\ transaction[<<v, 0>>].storeBalanceID = S2
       /\ \E u \in 1..(v - 1) :
            /\ Has(transaction, <<u, 0>>)
            /\ transaction[<<u, 0>>].storeBalanceID = S1
       /\ \E w \in (v + 1)..version :
            /\ Has(transaction, <<w, 0>>)
            /\ transaction[<<w, 0>>].storeBalanceID = S1

\* ------------------------------------------------------------------------
\* Event source with a store whose operations may throw
\* ------------------------------------------------------------------------

FaultTimes == {Micros(1000, 0), Micros(4600, 999999)}

Faults(ops) == {NoFault} \cup {ops[i] : i \in 1..Len(ops)}

VaultCreatedFirst ==
  /\ version = 0
  /\ Delivered([NoEvent EXCEPT !.type = "VaultCreated", !.vault = V1,
                               !.token = M1], Micros(1000, 0))
  /\ VaultCreated(V1, M1, Context(Micros(1000, 0), <<>>))

OnDepositWithFaults ==
  \E t \in FaultTimes, r \in ViewResults(S1), fault \in Faults(FungibleOps) :
    /\ Delivered([NoEvent EXCEPT !.type = DEPOSIT, !.store = S1, !.amount = 2,
                                 !.viewResult = r, !.fault = fault], t)
    /\ Has(storeMetadataCache, S1) => r = StoreMetadataOnChain(S1)
    /\ IF fault = NoFault
         THEN processBalanceChange(S1, 2, DEPOSIT, Context(t, r))
         ELSE processBalanceChangeFailing(S1, 2, DEPOSIT, Context(t, r), fault)
    /\ UNCHANGED <<vaultVars, stakingVars>>

OnStakeWithFaults ==
  \E t \in FaultTimes, fault \in Faults(StakingOps) :
    /\ Delivered([NoEvent EXCEPT !.type = STAKE, !.user = U1, !.token = M1,
                                 !.amount = 2, !.fault = fault], t)
    /\ IF fault = NoFault
         THEN processStakingChange(U1, M1, 2, STAKE, Context(t, <<>>))
         ELSE processStakingChangeFailing(U1, M1, 2, STAKE, Context(t, <<>>),
                                          fault)
    /\ UNCHANGED <<vaultVars, fungibleVars>>

NextFaults == VaultCreatedFirst \/ OnDepositWithFaults \/ OnStakeWithFaults

SpecFaults == Init /\ [][NextFaults]_vars

\* C18 -- Store failures are surfaced: whenever a store operation (get, list
\* or upsert) throws while an event is processed, the failure propagates out
\* of the handler; the handler never swallows it and never returns normally
\* as if the event had been handled.
StoreFailuresSurfaced ==
  [][(version' = version + 1 /\ event'.fault # NoFault)
       => outcome' = "threw"]_vars

\* ------------------------------------------------------------------------
\* Handlers as sequences of store operations: every await of a store
\* operation is a point where the handler is suspended
\* ------------------------------------------------------------------------

\* GLOBAL_CONFIG.execution
sequential == TRUE


\* variant: handlers are started whether or not another one is in flight
MayStartConcurrently == TRUE

\* with sequential execution a handler is started only when the handler of
\* the previous event has finished
MayStart == sequential => DOMAIN running = {}

StepTimes ==
  {Micros(1000, 0), Micros(4600, 999999), Micros(87401, 1), Micros(173802, 0)}

\* variant: the get scans the table and returns every row
RowScan(table, id) == table

\* what store.get returns, as a table of at most one row
Row(table, id) ==
  IF Has(table, id) THEN [k \in {id} |-> table[id]] ELSE EmptyTable

Without(table, id) == [k \in (DOMAIN table) \ {id} |-> table[k]]

\* the operation after op in the program order
NextOp(ops, op) == ops[(CHOOSE i \in 1..Len(ops) : ops[i] = op) + 1]

\* the staking event is delivered and its handler starts: it has read
\* nothing yet and is about to list the vaults of the staking token
StartStakingChange(transactionType, amount) ==
  \E t \in StepTimes :
    /\ version < MaxEvents
    /\ getTimestampInSeconds(t) >= chainTime
    /\ MayStart
    /\ version' = version + 1
    /\ chainTime' = getTimestampInSeconds(t)
    /\ event' = [NoEvent EXCEPT !.type = transactionType, !.user = U1,
                                !.token = M1, !.amount = amount,
                                !.timestamp = getTimestampInSeconds(t),
                                !.version = version + 1]
    /\ running' =
         Upsert(running, version + 1,
                [userAddress |-> U1, stakingTokenMetadata |-> M1,
                 amount |-> amount, transactionType |-> transactionType,
                 ctx |-> Context(t, <<>>), pc |-> StakingOps[1],
                 vaultId |-> <<>>,
                 store |-> [user |-> EmptyTable, stakingBalance |-> EmptyTable,
                            stakingSnapshot |-> EmptyTable,
                            stakingStats |-> EmptyTable]])
    /\ UNCHANGED <<vaultVars, fungibleVars, stakingVars, outcome, query,
                   dualAssetVars>>

StartStake == StartStakingChange(STAKE, 2)

StartUnstake == StartStakingChange(UNSTAKE, 3)

\* the handler of the event of version v performs its next store operation
StakingChangeStep(v) ==
  LET h == running[v]
      stakingBalanceId == <<h.userAddress, h.stakingTokenMetadata>>
      vaults == ListVaultsBySharesMetadata(vault, h.stakingTokenMetadata)
      entities ==
        StakingEntities(h.userAddress, h.stakingTokenMetadata, h.amount,
                        h.transactionType, h.ctx, h.vaultId, h.store)
      read(field, row, next) ==
        /\ running' = [running EXCEPT ![v].store[field] = row, ![v].pc = next]
        /\ UNCHANGED <<stakingVars, outcome>>
      continue == running' = [running EXCEPT ![v].pc = NextOp(StakingOps, @)]
  IN /\ UNCHANGED <<vaultVars, fungibleVars, version, chainTime, event, query,
                   dualAssetVars>>
     /\ CASE h.pc = "list Vault by staking token" ->
               IF vaults = {}
                 THEN /\ running' = Without(running, v)
                      /\ outcome' = "returned"
                      /\ UNCHANGED stakingVars
                 ELSE /\ \E vaultId \in vaults :
                           running' = [running EXCEPT
                                         ![v].vaultId = vaultId,
                                         ![v].pc = "get StakingStats"]
                      /\ UNCHANGED <<stakingVars, outcome>>
          [] h.pc = "get StakingStats" ->
               read("stakingStats", Row(stakingStats, STATS_ID), "get User")
          [] h.pc = "get User" ->
               read("user", Row(user, h.userAddress), "get StakingBalance")
          [] h.pc = "get StakingBalance" ->
               read("stakingBalance", Row(stakingBalance, stakingBalanceId),
                    IF /\ Has(stakingBalance, stakingBalanceId)
                       /\ stakingBalance[stakingBalanceId].totalSnapshotCount
                            > 0
                      THEN "get StakingSnapshot"
                      ELSE "upsert User")
          [] h.pc = "get StakingSnapshot" ->
               LET id == CurrentStakingSnapshotId(
                           stakingBalanceId,
                           h.store.stakingBalance[stakingBalanceId])
               IN read("stakingSnapshot", Row(stakingSnapshot, id),
                       "upsert User")
          [] h.pc = "upsert User" ->
               /\ user' = Upsert(user, entities.userId, entities.user)
               /\ continue
               /\ UNCHANGED <<stakingBalance, stakingSnapshot,
                              stakingTransaction, stakingStats, outcome>>
          [] h.pc = "upsert StakingBalance" ->
               /\ stakingBalance' =
                    Upsert(stakingBalance, entities.stakingBalanceId,
                           entities.stakingBalance)
               /\ continue
               /\ UNCHANGED <<user, stakingSnapshot, stakingTransaction,
                              stakingStats, outcome>>
          [] h.pc = "upsert StakingTransaction" ->
               /\ stakingTransaction' =
                    Upsert(stakingTransaction, entities.transactionId,
                           entities.transaction)
               /\ continue
               /\ UNCHANGED <<user, stakingBalance, stakingSnapshot,
                              stakingStats, outcome>>
          [] h.pc = "upsert StakingSnapshot" ->
               /\ stakingSnapshot' =
                    Upsert(stakingSnapshot, entities.snapshotId,
                           entities.snapshot)
               /\ continue
               /\ UNCHANGED <<user, stakingBalance, stakingTransaction,
                              stakingStats, outcome>>
          [] h.pc = "upsert StakingStats" ->
               /\ stakingStats' = Upsert(stakingStats, STATS_ID, entities.stats)
               /\ running' = Without(running, v)
               /\ outcome' = "returned"
               /\ UNCHANGED <<user, stakingBalance, stakingSnapshot,
                              stakingTransaction>>

OnStakingChangeStep == \E v \in DOMAIN running : StakingChangeStep(v)

NextSteps ==
  VaultCreatedFirst \/ StartStake \/ StartUnstake \/ OnStakingChangeStep

SpecSteps == Init /\ [][NextSteps]_vars

\* no handler is in flight
Quiescent == DOMAIN running = {}

\* the staking account and its open snapshot are what replaying the
\* account's events one at a time, in delivery order, gives
StakingAccountReplayed(id) ==
  LET evs == StakingEventsOf(id)
      n == Len(evs)
      sb == stakingBalance[id]
      open == <<id, sb.totalSnapshotCount>>
  IN /\ n >= 1
     /\ sb.lastKnownBalance = RefBalance(evs, n)
     /\ sb.cumulativeBalanceSeconds = RefBalanceSeconds(evs, n)
     /\ sb.lastObservationTime = evs[n][1]
     /\ sb.totalSnapshotCount = RefSnapshots(evs, n)[1]
     /\ Has(stakingSnapshot, open)
     /\ stakingSnapshot[open].filledAt = RefSnapshots(evs, n)[2]
     /\ stakingSnapshot[open].balance = sb.lastKnownBalance
     /\ stakingSnapshot[open].cumulativeBalanceSeconds
          = sb.cumulativeBalanceSeconds
     /\ stakingSnapshot[open].lastUpdateTime = sb.lastObservationTime

\* every staking event delivered after the creation of the vault has been
\* applied to the account of its staker
EveryEventApplied ==
  \A a \in DOMAIN vault :
    \A v \in (vault[a].createdAtVersion + 1)..version :
      /\ Has(stakingTransaction, <<v, 0>>)
      /\ stakingTransaction[<<v, 0>>].stakingBalanceID \in DOMAIN stakingBalance

\* C20 -- Serialised updates lose nothing: with the configured sequential
\* execution at most one handler is in flight, so handlers never interleave
\* at their store get/upsert suspension points, and whenever the delivered
\* events have all been handled the persisted accounts and snapshots are what
\* applying the events one at a time in delivery order gives: no event's
\* delta or elapsed time is lost or applied twice.
SerialisedUpdates ==
  /\ Cardinality(DOMAIN running) <= 1
  /\ Quiescent =>
       /\ EveryEventApplied
       /\ \A id \in DOMAIN stakingBalance : StakingAccountReplayed(id)

\* three staking events have been handled, operation by operation, and the
\* account holds a positive balance and has accrued balance-seconds
SerialisedUpdatesWitness ==
  /\ Quiescent
  /\ \E id \in DOMAIN stakingBalance :
       /\ Len(StakingEventsOf(id)) = 3
       /\ stakingBalance[id].lastKnownBalance > 0
       /\ stakingBalance[id].cumulativeBalanceSeconds > 0

\* ------------------------------------------------------------------------
\* Properties of interrupted handlers
\* ------------------------------------------------------------------------

\* the step delivers a tracked event whose handler stops after the upsert
\* of the account and before the upsert of the snapshot has taken effect
StakingStoppedBetweenWrites ==
  /\ StakingApplied
  /\ event'.fault \in {"upsert StakingTransaction", "upsert StakingSnapshot"}

StoreStoppedBetweenWrites ==
  /\ StoreApplied
  /\ event'.fault \in {"upsert Transaction", "upsert BalanceSnapshot"}

\* the account has its post-event values
AccountWritten(bal, balNext, id, ev) ==
  /\ ClampedStep(bal, balNext, id, ev.timestamp,
                 SignedDelta(ev.type, ev.amount))
  /\ balNext[id].lastObservationTime = ev.timestamp

\* C21 -- Crash window between the two writes: the account is written
\* before its snapshot, so when the processing of an event stops after the
\* account upsert and before the snapshot upsert, the persisted account has
\* its post-event values and every snapshot its pre-event values; and in no
\* step is a snapshot written while the account stays stale.
CrashWindow ==
  [][/\ StakingStoppedBetweenWrites =>
          /\ AccountWritten(stakingBalance, stakingBalance',
                            StakingId(event'), event')
          /\ stakingSnapshot' = stakingSnapshot
     /\ StoreStoppedBetweenWrites =>
          /\ AccountWritten(storeBalance, storeBalance', event'.store, event')
          /\ balanceSnapshot' = balanceSnapshot
     /\ (StakingApplied /\ stakingSnapshot' # stakingSnapshot) =>
          AccountWritten(stakingBalance, stakingBalance', StakingId(event'),
                         event')
     /\ (StoreApplied /\ balanceSnapshot' # balanceSnapshot) =>
          AccountWritten(storeBalance, storeBalance', event'.store, event')
    ]_vars

\* the handler of the second stake of an account stopped before its
\* snapshot upsert: the account was observed at the event time, its open
\* snapshot was last updated before it
CrashWindowWitness ==
  /\ event.fault = "upsert StakingSnapshot"
  /\ \E id \in DOMAIN stakingBalance :
       LET open == <<id, stakingBalance[id].totalSnapshotCount>>
       IN /\ Has(stakingSnapshot, open)
          /\ stakingBalance[id].lastObservationTime = event.timestamp
          /\ stakingSnapshot[open].lastUpdateTime < event.timestamp
          /\ stakingSnapshot[open].balance < stakingBalance[id].lastKnownBalance

\* ------------------------------------------------------------------------
\* A query that runs while handlers run
\* ------------------------------------------------------------------------

RacingQueryTimes == {4600, 87401, 200000}

\* the account whose average balance is queried
QueriedAccount == <<U1, M1>>


\* the average when the boundary snapshots for t1 are selected from the
\* table `first` and those for t2, by the second SELECT, from `second`
AverageBalanceAcross(first, second, id, t1, t2) ==
  LET cumulative1 == CumulativeAt(first, id, t1)
      cumulative2 == CumulativeAt(second, id, t2)
  IN IF cumulative1.kind \notin {"value", "undefined"} THEN cumulative1
     ELSE IF cumulative2.kind \notin {"value", "undefined"} THEN cumulative2
     ELSE IF "undefined" \in {cumulative1.kind, cumulative2.kind}
       THEN Thrown("TypeError")
     ELSE BigIntDiv(cumulative2.value - cumulative1.value, t2 - t1)

\* the first SELECT: the boundary snapshots for t1 are read from the
\* persisted snapshots
QuerySelectFirst ==
  \E t1, t2 \in RacingQueryTimes :
    /\ t1 < t2
    /\ query.pc # "selected for t1"
    /\ query' = [pc |-> "selected for t1", t1 |-> t1, t2 |-> t2,
                 first |-> stakingSnapshot, version |-> version,
                 result |-> Undefined]
    /\ UNCHANGED <<vaultVars, fungibleVars, stakingVars, version, chainTime,
                   event, outcome, running, dualAssetVars>>


\* variant: the query keeps its answer in the store, on the snapshot row
QuerySelectSecondCaching ==
  /\ query.pc = "selected for t1"
  /\ query' = [query EXCEPT
                 !.pc = "answered",
                 !.result = AverageBalanceAcross(query.first, stakingSnapshot,
                                                 QueriedAccount, query.t1,
                                                 query.t2)]
  /\ stakingSnapshot' =
       [k \in DOMAIN stakingSnapshot |->
          [stakingSnapshot[k] EXCEPT !.lastUpdateTime = query.t2]]
  /\ UNCHANGED <<vaultVars, fungibleVars, user, stakingBalance,
                 stakingTransaction, stakingStats, version, chainTime, event,
                 outcome, running, dualAssetVars>>

\* the second SELECT reads the boundary snapshots for t2, and the average
\* is computed
QuerySelectSecond ==
  /\ query.pc = "selected for t1"
  /\ query' = [query EXCEPT
                 !.pc = "answered",
                 !.result = AverageBalanceAcross(query.first, stakingSnapshot,
                                                 QueriedAccount, query.t1,
                                                 query.t2)]
  /\ UNCHANGED <<vaultVars, fungibleVars, stakingVars, version, chainTime,
                 event, outcome, running, dualAssetVars>>

NextRacing == NextSteps \/ QuerySelectFirst \/ QuerySelectSecond

SpecRacing == Init /\ [][NextRacing]_vars


\* ------------------------------------------------------------------------
\* Properties of racing queries
\* ------------------------------------------------------------------------

\* the step answers a query during which no new handler was started, so
\* that at most the one handler in flight has written between the SELECTs
AnswersRacingQuery ==
  /\ query.pc = "selected for t1"
  /\ query'.pc = "answered"
  /\ query.version = version

\* every row of the snapshot table is a row as a handler committed it: its
\* fields are those of the account after one and the same event
CommittedRows(snapshots) ==
  \A k \in DOMAIN snapshots :
    LET evs == StakingEventsOf(k[1])
    IN \E n \in 1..Len(evs) :
         /\ snapshots[k].balance = RefBalance(evs, n)
         /\ snapshots[k].cumulativeBalanceSeconds = RefBalanceSeconds(evs, n)
         /\ snapshots[k].lastUpdateTime = evs[n][1]

\* C22 -- Racing queries see committed snapshots only: a query that runs
\* concurrently with an event handler reads each snapshot as it was before
\* the handler's snapshot upsert or as it is after it, and the
\* AverageBalance it returns equals the value computed on the snapshots
\* before the upsert or on the snapshots after it.
RacingQueryPreOrPost ==
  [][AnswersRacingQuery =>
       query'.result \in
         {AverageBalance(query.first, QueriedAccount, query.t1, query.t2),
          AverageBalance(stakingSnapshot, QueriedAccount, query.t1,
                         query.t2)}]_vars

\* what a racing query does guarantee: each of its two SELECTs reads every
\* snapshot as a handler committed it, never as a mixture of old and new
\* fields; the cumulative at t1 is computed on the snapshots seen by the
\* first SELECT and the cumulative at t2 on those seen by the second, so
\* the result is the pre- or post-update value only when both SELECTs saw
\* the same snapshots
RacingQueryCommitted ==
  [][AnswersRacingQuery =>
       LET c1 == CumulativeAt(query.first, QueriedAccount, query.t1)
           c2 == CumulativeAt(stakingSnapshot, QueriedAccount, query.t2)
       IN /\ CommittedRows(query.first)
          /\ CommittedRows(stakingSnapshot)
          /\ (c1.kind = "value" /\ c2.kind = "value") =>
               query'.result = BigIntDiv(c2.value - c1.value,
                                         query.t2 - query.t1)
          /\ query.first = stakingSnapshot =>
               query'.result = AverageBalance(stakingSnapshot, QueriedAccount,
                                              query.t1, query.t2)]_vars

\* a query was answered whose two SELECTs saw the open snapshot before and
\* after the snapshot upsert of the one handler in flight
RacingQueryCommittedWitness ==
  /\ query.pc = "answered"
  /\ query.version = version
  /\ query.result.kind = "value"
  /\ \E k \in DOMAIN query.first :
       /\ Has(stakingSnapshot, k)
       /\ query.first[k].lastUpdateTime < stakingSnapshot[k].lastUpdateTime


\* the step is a step of the query
QueryStep == query' # query

\* C25 -- Queries have no side effects: AverageBalance only reads snapshots;
\* a step of the query changes no account, no snapshot, no transaction
\* record and no counter, and the answer to a query whose SELECTs saw the
\* store unchanged is a function of the arguments and the snapshots alone,
\* so that repeating the call on the unchanged store returns the same
\* result.
QueriesOnlyRead ==
  [][QueryStep =>
       /\ UNCHANGED <<vaultVars, fungibleVars, stakingVars, version,
                      chainTime, running>>
       /\ (query'.pc = "answered" /\ query.first = stakingSnapshot) =>
            query'.result = AverageBalance(stakingSnapshot', QueriedAccount,
                                           query.t1, query.t2)]_vars

\* a query was answered with a value on a store holding snapshots that did
\* not change between its SELECTs
QueriesOnlyReadWitness ==
  /\ query.pc = "answered"
  /\ query.result.kind = "value"
  /\ query.result.value > 0
  /\ query.first = stakingSnapshot
  /\ DOMAIN stakingSnapshot # {}


\* ------------------------------------------------------------------------
\* Events delivered a second time
\* ------------------------------------------------------------------------

\* the context of the event delivered last: the same version, event index
\* and transaction timestamp
ContextAgain ==
  [timestamp |-> Micros(event.timestamp, 0), version |-> event.version,
   eventIndex |-> 0, sender |-> U1, viewResult |-> <<>>]

\* the handler is called once more with the event it handled last
Redelivered ==
  /\ ~event.redelivered
  /\ event' = [event EXCEPT !.redelivered = TRUE]
  /\ UNCHANGED <<version, chainTime, outcome, running, query,
                 dualAssetVars>>

RedeliverStaking ==
  /\ event.type \in {STAKE, UNSTAKE}
  /\ Redelivered
  /\ processStakingChange(event.user, event.token, event.amount, event.type,
                          ContextAgain)
  /\ UNCHANGED <<vaultVars, fungibleVars>>

NextRedelivery == OnVaultCreated \/ OnStake \/ OnUnstake \/ RedeliverStaking

SpecRedelivery == Init /\ [][NextRedelivery]_vars


\* the step applies a tracked staking event a second time
StakingAppliedAgain ==
  /\ event'.redelivered
  /\ ~event.redelivered
  /\ \E v \in DOMAIN vault : vault[v].sharesMetadata = event.token

\* how often the counter of the event's kind is incremented
CountedIn(stats, type) ==
  IF type = STAKE THEN stats.totalStakeCount ELSE stats.totalUnstakeCount

\* C23 -- No deduplication: applying the same event (same account,
\* timestamp, amount, version and event index) a second time is not
\* idempotent: the second application adds zero balance-seconds, since the
\* elapsed time is 0, but applies the delta to the balance again and
\* increments the stake/unstake counter again, while the transaction
\* record keyed by version-eventIndex is merely overwritten.
NoDeduplication ==
  [][StakingAppliedAgain =>
       LET id == StakingId(event)
           delta == SignedDelta(event.type, event.amount)
       IN /\ stakingBalance'[id].cumulativeBalanceSeconds
               = stakingBalance[id].cumulativeBalanceSeconds
          /\ stakingBalance'[id].lastObservationTime
               = stakingBalance[id].lastObservationTime
          /\ stakingBalance'[id].lastKnownBalance
               = Max0(stakingBalance[id].lastKnownBalance + delta)
          /\ CountedIn(stakingStats'[STATS_ID], event.type)
               = CountedIn(stakingStats[STATS_ID], event.type) + 1
          /\ DOMAIN stakingTransaction' = DOMAIN stakingTransaction
          /\ stakingTransaction' = stakingTransaction
          /\ stakingVars' # stakingVars]_vars

\* one stake of 2 was applied twice: the balance is 4 and two stakes are
\* counted, with one transaction record
NoDeduplicationWitness ==
  /\ event.redelivered
  /\ event.type = STAKE
  /\ Cardinality(DOMAIN stakingTransaction) = 1
  /\ Has(stakingBalance, StakingId(event))
  /\ stakingBalance[StakingId(event)].lastKnownBalance = 4
  /\ stakingStats[STATS_ID].totalStakeCount = 2


\* ------------------------------------------------------------------------
\* Events of amount 0
\* ------------------------------------------------------------------------

ZeroAmounts == {0, 2}

OnStakeZero == \E amount \in ZeroAmounts : StakingEvent(STAKE, amount)

OnUnstakeZero == StakingEvent(UNSTAKE, 0)

OnDepositZero ==
  \E amount \in ZeroAmounts :
    FungibleEvent(DEPOSIT, amount, StoreMetadataOnChain(S1))

OnWithdrawZero == FungibleEvent(WITHDRAW, 0, StoreMetadataOnChain(S1))

NextZero ==
  \/ OnVaultCreated
  \/ OnStakeZero
  \/ OnUnstakeZero
  \/ OnDepositZero
  \/ OnWithdrawZero

SpecZero == Init /\ [][NextZero]_vars

\* the event of amount 0 leaves the balance of the account as it was (0
\* when the account is created by the event), advances the cumulative by
\* balance * elapsed and sets lastObservationTime to the event time
ZeroAmountAccount(bal, balNext, id, ev) ==
  /\ AccountWritten(bal, balNext, id, ev)
  /\ balNext[id].lastKnownBalance
       = (IF id \in DOMAIN bal THEN bal[id].lastKnownBalance ELSE 0)

\* the event touches the open snapshot, or creates snapshot 1 for a new
\* account, or rolls over to a new snapshot when the open one has expired
SnapshotTouched(bal, balNext, snaps, snapsNext, id, ev) ==
  LET n == IF id \in DOMAIN bal THEN bal[id].totalSnapshotCount ELSE 0
      rolls == \/ n = 0
               \/ ev.timestamp - snaps[<<id, n>>].filledAt
                    > SNAPSHOT_LIFETIME_SECONDS
      m == balNext[id].totalSnapshotCount
  IN /\ m = (IF rolls THEN n + 1 ELSE n)
     /\ Has(snapsNext, <<id, m>>)
     /\ snapsNext[<<id, m>>].filledAt
          = (IF rolls THEN ev.timestamp ELSE snaps[<<id, n>>].filledAt)
     /\ snapsNext[<<id, m>>].lastUpdateTime = ev.timestamp
     /\ snapsNext[<<id, m>>].balance = balNext[id].lastKnownBalance
     /\ snapsNext[<<id, m>>].cumulativeBalanceSeconds
          = balNext[id].cumulativeBalanceSeconds
     /\ id \notin DOMAIN bal => m = 1

\* C24 -- Zero-amount events are processed like any other: a tracked
\* deposit, withdraw, stake or unstake of amount 0 leaves the balance
\* unchanged, advances the cumulative by balance * elapsed, sets
\* lastObservationTime to the event time and touches (or creates, or rolls
\* over) the snapshot; when it is the first event of the account it creates
\* the account and snapshot 1.
ZeroAmountProcessed ==
  [][/\ (StakingApplied /\ event'.amount = 0) =>
          /\ ZeroAmountAccount(stakingBalance, stakingBalance',
                               StakingId(event'), event')
          /\ SnapshotTouched(stakingBalance, stakingBalance', stakingSnapshot,
                             stakingSnapshot', StakingId(event'), event')
     /\ (StoreApplied /\ event'.amount = 0) =>
          /\ ZeroAmountAccount(storeBalance, storeBalance', event'.store,
                               event')
          /\ SnapshotTouched(storeBalance, storeBalance', balanceSnapshot,
                             balanceSnapshot', event'.store, event')]_vars

\* a stake of 0 has been applied to an account holding a balance, with
\* balance-seconds accrued up to the event, and a store account exists
\* that has only seen events of amount 0
ZeroAmountProcessedWitness ==
  /\ event.type = STAKE
  /\ event.amount = 0
  /\ Has(stakingBalance, StakingId(event))
  /\ stakingBalance[StakingId(event)].lastKnownBalance > 0
  /\ stakingBalance[StakingId(event)].cumulativeBalanceSeconds > 0
  /\ stakingBalance[StakingId(event)].lastObservationTime = event.timestamp
  /\ Has(storeBalance, S1)
  /\ storeBalance[S1].lastKnownBalance = 0
  /\ storeBalance[S1].totalSnapshotCount >= 1
  /\ \A i \in 1..Len(StoreEventsOf(S1)) : StoreEventsOf(S1)[i][2] = 0


\* ------------------------------------------------------------------------
\* Properties of the asset filter and of the counters
\* ------------------------------------------------------------------------

\* the step delivers a deposit/withdraw on a store whose metadata is not the
\* sharesMetadata of any existing Vault
StoreUntracked ==
  /\ version' = version + 1
  /\ event'.type \in {DEPOSIT, WITHDRAW}
  /\ ListVaultsBySharesMetadata(vault, StoreMetadataOnChain(event'.store)) = {}

\* the step delivers a stake/unstake of a token that is not the
\* sharesMetadata of any existing Vault
StakingUntracked ==
  /\ version' = version + 1
  /\ event'.type \in {STAKE, UNSTAKE}
  /\ ListVaultsBySharesMetadata(vault, event'.token) = {}

\* the cache entry of an untracked store
UntrackedEntry(cache, storeAddress) ==
  /\ ~cache[storeAddress].isCanopyVault
  /\ cache[storeAddress].vaultID = <<>>
  /\ cache[storeAddress].metadata = StoreMetadataOnChain(storeAddress)

\* C26 -- Untracked assets are filtered out: a deposit or withdraw on a
\* store whose metadata is not the sharesMetadata of any existing Vault
\* writes nothing but a StoreMetadataCache entry with isCanopyVault false
\* and no vault id, on the first event whose metadata lookup succeeds, and
\* nothing at all on later events; it creates no StoreBalance,
\* BalanceSnapshot, Transaction or FungibleAssetStats. A stake or unstake of
\* a token matching no Vault writes no User, StakingBalance,
\* StakingSnapshot, StakingTransaction or StakingStats.
UntrackedFiltered ==
  [][/\ StoreUntracked =>
          /\ UNCHANGED <<storeBalance, balanceSnapshot, transaction,
                         fungibleAssetStats, vaultVars, stakingVars>>
          /\ IF Has(storeMetadataCache, event'.store)
               THEN /\ storeMetadataCache' = storeMetadataCache
                    /\ UntrackedEntry(storeMetadataCache, event'.store)
               ELSE IF event'.viewResult \in {ViewThrows, NoMetadata}
                 THEN storeMetadataCache' = storeMetadataCache
                 ELSE /\ DOMAIN storeMetadataCache'
                           = DOMAIN storeMetadataCache \cup {event'.store}
                      /\ UntrackedEntry(storeMetadataCache', event'.store)
     /\ StakingUntracked =>
          UNCHANGED <<stakingVars, fungibleVars, vaultVars>>]_vars

\* a store has been cached as untracked, a later event on it and a stake of
\* the untracked token have been delivered, and no other entity exists
UntrackedFilteredWitness ==
  /\ version >= 3
  /\ event.type = STAKE
  /\ DOMAIN vault = {}
  /\ Has(storeMetadataCache, S1)
  /\ ~storeMetadataCache[S1].isCanopyVault
  /\ DOMAIN storeBalance = {}
  /\ DOMAIN fungibleAssetStats = {}
  /\ DOMAIN stakingBalance = {}
  /\ DOMAIN stakingStats = {}
  /\ DOMAIN user = {}


\* ------------------------------------------------------------------------
\* Events on cached stores, whatever a view call would return
\* ------------------------------------------------------------------------

CacheTimes == {Micros(1000, 0), Micros(4600, 999999), Micros(87401, 1)}

\* a deposit or withdraw on one of the two stores; r is what the view call
\* returns if the handler makes it
CachedStoreEvent(storeAddress, transactionType, amount) ==
  \E t \in CacheTimes, r \in ViewResults(storeAddress) :
    /\ Delivered([NoEvent EXCEPT !.type = transactionType,
                                 !.store = storeAddress,
                                 !.amount = amount, !.viewResult = r], t)
    /\ processBalanceChange(storeAddress, amount, transactionType,
                            Context(t, r))
    /\ UNCHANGED <<vaultVars, stakingVars>>

OnDepositCached ==
  \E storeAddress \in Stores : CachedStoreEvent(storeAddress, DEPOSIT, 2)

OnWithdrawCached ==
  \E storeAddress \in Stores : CachedStoreEvent(storeAddress, WITHDRAW, 3)

OnVaultCreatedCached ==
  \E t \in CacheTimes :
    /\ Delivered([NoEvent EXCEPT !.type = "VaultCreated", !.vault = V1,
                                 !.token = M1], t)
    /\ VaultCreated(V1, M1, Context(t, <<>>))

NextCached == OnVaultCreatedCached \/ OnDepositCached \/ OnWithdrawCached

SpecCached == Init /\ [][NextCached]_vars


\* the context of the event the step delivers, with r as the result the
\* view call would return
ViewedAs(r) ==
  [timestamp |-> Micros(event'.timestamp, 0), version |-> event'.version,
   eventIndex |-> 0, sender |-> U1, viewResult |-> r]

\* the step delivers a deposit/withdraw on a store that has a cache entry
OnCachedStore ==
  /\ version' = version + 1
  /\ event'.type \in {DEPOSIT, WITHDRAW}
  /\ Has(storeMetadataCache, event'.store)

\* C27 -- Metadata cache is write-once: once a StoreMetadataCache entry
\* exists for a store address no later event changes that entry, and a
\* deposit or withdraw on that store makes no further metadata view call:
\* what it does is the same whatever a view call would return, the
\* metadata being looked up only on a cache miss.
CacheWriteOnce ==
  [][/\ \A s \in DOMAIN storeMetadataCache :
          /\ Has(storeMetadataCache', s)
          /\ storeMetadataCache'[s] = storeMetadataCache[s]
     /\ OnCachedStore =>
          \A r \in ViewResults(event'.store) :
            processBalanceChange(event'.store, event'.amount, event'.type,
                                 ViewedAs(r))]_vars

\* both stores are cached, one as untracked before the vault was created and
\* one as a vault store after, and an event on a cached store was delivered
\* for which a view call would have thrown
CacheWriteOnceWitness ==
  /\ Has(storeMetadataCache, S1)
  /\ Has(storeMetadataCache, S2)
  /\ storeMetadataCache[S1].isCanopyVault # storeMetadataCache[S2].isCanopyVault
  /\ event.type \in {DEPOSIT, WITHDRAW}
  /\ event.viewResult = ViewThrows
  /\ storeMetadataCache[event.store].isCanopyVault
  /\ Has(storeBalance, event.store)
  /\ storeBalance[event.store].lastObservationTime = event.timestamp


\* the transaction records of one type
TransactionsOfType(type) ==
  {k \in DOMAIN transaction : transaction[k].type = type}

\* the counters of FungibleAssetStats are those of the stored entities
FungibleCountersOfStore ==
  IF Has(fungibleAssetStats, STATS_ID)
    THEN LET stats == fungibleAssetStats[STATS_ID]
         IN /\ stats.totalDepositCount
                 = Cardinality(TransactionsOfType(DEPOSIT))
            /\ stats.totalWithdrawCount
                 = Cardinality(TransactionsOfType(WITHDRAW))
            /\ stats.totalDepositCount + stats.totalWithdrawCount
                 = Cardinality(DOMAIN transaction)
            /\ stats.uniqueStoreCount = Cardinality(DOMAIN storeBalance)
            /\ stats.canopyVaultStoreCount = stats.uniqueStoreCount
            /\ stats.uniqueStoreCount >= 1
    ELSE /\ DOMAIN transaction = {}
         /\ DOMAIN storeBalance = {}

\* the step counts the tracked event it delivers, once, under its type
CountsTrackedEvent ==
  LET old == getOrCreateFungibleAssetStats(FungibleStore, event'.timestamp)
      new == fungibleAssetStats'[STATS_ID]
      deposit == IF event'.type = DEPOSIT THEN 1 ELSE 0
  IN /\ Has(fungibleAssetStats', STATS_ID)
     /\ new.totalDepositCount = old.totalDepositCount + deposit
     /\ new.totalWithdrawCount = old.totalWithdrawCount + (1 - deposit)
     /\ new.lastUpdateTime = event'.timestamp
     /\ Cardinality(DOMAIN transaction')
          = Cardinality(DOMAIN transaction) + 1

\* C28 -- Fungible-asset counters match the store: after any sequence of
\* events with distinct (version, eventIndex) keys totalDepositCount and
\* totalWithdrawCount are the numbers of tracked deposit and withdraw events
\* processed, their sum is the number of Transaction records,
\* uniqueStoreCount and canopyVaultStoreCount both equal the number of
\* StoreBalance entities, and lastUpdateTime is the timestamp of the last
\* tracked event.
FungibleCountersMatch ==
  [][/\ FungibleCountersOfStore'
     /\ IF StoreApplied
          THEN CountsTrackedEvent
          ELSE UNCHANGED <<fungibleAssetStats, transaction, storeBalance>>]_vars

\* tracked deposits and withdraws on two stores have been counted, after an
\* event that was not tracked
FungibleCountersMatchWitness ==
  /\ Has(fungibleAssetStats, STATS_ID)
  /\ fungibleAssetStats[STATS_ID].totalDepositCount >= 1
  /\ fungibleAssetStats[STATS_ID].totalWithdrawCount >= 1
  /\ fungibleAssetStats[STATS_ID].uniqueStoreCount = 2
  /\ fungibleAssetStats[STATS_ID].lastUpdateTime = event.timestamp
  /\ Cardinality(DOMAIN transaction) < version - 1


\* ------------------------------------------------------------------------
\* Vault creations only, of several vaults
\* ------------------------------------------------------------------------

V2 == Addr("1add", 64)    \* a second vault
M2 == Addr("44d4", 63)    \* its shares metadata, as the tests write it

\* the vault addresses the events carry: two vaults, and the first vault
\* again in a form without its leading zeros
VaultAddresses == {V1, V2, Addr("f8e3", 62)}

VaultTokens == {M1, M2}

OnVaultCreatedAmong ==
  \E t \in CacheTimes, v \in VaultAddresses, m \in VaultTokens :
    /\ Delivered([NoEvent EXCEPT !.type = "VaultCreated", !.vault = v,
                                 !.token = m], t)
    /\ VaultCreated(v, m, Context(t, <<>>))

NextVaults == OnVaultCreatedAmong

SpecVaults == Init /\ [][NextVaults]_vars

\* the vault events delivered so far carried distinct vault addresses:
\* every one of them, and the model delivers no other event, created a Vault
DistinctVaultAddresses == Cardinality(DOMAIN vault) = version

\* C29 -- Vault counter: every VaultCreated event stores a Vault keyed by
\* its (padded) address with createdAt, sharesMetadata and createdAtVersion
\* taken from the event, increments VaultStats.totalVaultCount by exactly 1
\* and sets lastUpdateTime to the event time, so that after any sequence of
\* VaultCreated events with distinct vault addresses totalVaultCount equals
\* the number of Vault entities.
VaultCounter ==
  [][LET id == padAptosAddress(event'.vault)
         before == IF Has(vaultStats, STATS_ID)
                     THEN vaultStats[STATS_ID].totalVaultCount
                     ELSE 0
     IN /\ Has(vault', id)
        /\ vault'[id] = [createdAt |-> event'.timestamp,
                         sharesMetadata |-> padAptosAddress(event'.token),
                         createdAtVersion |-> event'.version]
        /\ \A k \in DOMAIN vault' \ {id} : Has(vault, k) /\ vault'[k] = vault[k]
        /\ vaultStats'[STATS_ID].totalVaultCount = before + 1
        /\ vaultStats'[STATS_ID].lastUpdateTime = event'.timestamp
        /\ DistinctVaultAddresses' =>
             vaultStats'[STATS_ID].totalVaultCount
               = Cardinality(DOMAIN vault')]_vars

\* two vaults with distinct addresses have been created and counted
VaultCounterWitness ==
  /\ DistinctVaultAddresses
  /\ Cardinality(DOMAIN vault) = 2
  /\ vaultStats[STATS_ID].totalVaultCount = 2
  /\ Has(vault, V2)
  /\ vault[V2].sharesMetadata = padAptosAddress(M2)


\* ------------------------------------------------------------------------
\* The same events fed to both processors
\* ------------------------------------------------------------------------

\* the two kinds of ledger event, as each processor names them
LedgerKinds ==
  {[fungible |-> DEPOSIT, staking |-> STAKE],
   [fungible |-> WITHDRAW, staking |-> UNSTAKE]}

LedgerAmounts(kind) ==
  IF kind.fungible = DEPOSIT THEN DepositAmounts ELSE WithdrawAmounts

\* one (timestamp, amount, add/subtract) event is handled by the
\* fungible-asset processor for the store S1 and by the multi-rewards
\* processor for the staker U1 of the token M1
OnLedgerEvent ==
  \E t \in EventTimes, kind \in LedgerKinds :
    \E amount \in LedgerAmounts(kind) :
      /\ Has(vault, V1)
      /\ Delivered([NoEvent EXCEPT !.type = kind.fungible, !.store = S1,
                                   !.user = U1, !.token = M1,
                                   !.amount = amount,
                                   !.viewResult = StoreMetadataOnChain(S1)], t)
      /\ processBalanceChange(S1, amount, kind.fungible,
                              Context(t, StoreMetadataOnChain(S1)))
      /\ processStakingChange(U1, M1, amount, kind.staking, Context(t, <<>>))
      /\ UNCHANGED vaultVars

NextLedgers == VaultCreatedFirst \/ OnLedgerEvent

SpecLedgers == Init /\ [][NextLedgers]_vars

\* the ledger fields of an account
LedgerOfAccount(sb) ==
  [balance |-> sb.lastKnownBalance,
   lastObservationTime |-> sb.lastObservationTime,
   cumulativeBalanceSeconds |-> sb.cumulativeBalanceSeconds,
   snapshotCount |-> sb.totalSnapshotCount]

\* the ledger fields of a snapshot
LedgerOfSnapshot(snapshot) ==
  [filledAt |-> snapshot.filledAt, balance |-> snapshot.balance,
   cumulativeBalanceSeconds |-> snapshot.cumulativeBalanceSeconds,
   lastUpdateTime |-> snapshot.lastUpdateTime]

\* the snapshots of an account by their sequence number
LedgerOfSnapshots(snapshots, id) ==
  [n \in {k[2] : k \in {j \in DOMAIN snapshots : j[1] = id}} |->
     LedgerOfSnapshot(snapshots[<<id, n>>])]

\* C30 -- The two processors implement the same ledger: fed the same
\* sequence of (timestamp, amount, add/subtract) events, the StoreBalance
\* and BalanceSnapshots of the fungible-asset processor and the
\* StakingBalance and StakingSnapshots of the multi-rewards processor hold
\* identical balance, lastObservationTime, cumulativeBalanceSeconds and
\* snapshot count, and per snapshot identical filledAt, balance,
\* cumulativeBalanceSeconds and lastUpdateTime, after every event.
SameLedger ==
  /\ Has(storeBalance, S1) <=> Has(stakingBalance, <<U1, M1>>)
  /\ Has(storeBalance, S1) =>
       LedgerOfAccount(storeBalance[S1])
         = LedgerOfAccount(stakingBalance[<<U1, M1>>])
  /\ LedgerOfSnapshots(balanceSnapshot, S1)
       = LedgerOfSnapshots(stakingSnapshot, <<U1, M1>>)

\* both processors have handled three events, among them a subtraction
\* clamped at zero, and hold a second snapshot after a rollover
SameLedgerWitness ==
  /\ version = 4
  /\ Has(storeBalance, S1)
  /\ Has(stakingBalance, <<U1, M1>>)
  /\ storeBalance[S1].totalSnapshotCount = 2
  /\ stakingBalance[<<U1, M1>>].totalSnapshotCount = 2
  /\ storeBalance[S1].lastKnownBalance = 0
  /\ storeBalance[S1].cumulativeBalanceSeconds > 0
  /\ Cardinality(DOMAIN transaction) = 3
  /\ Cardinality(DOMAIN stakingTransaction) = 3


\* ------------------------------------------------------------------------
\* Properties of the work done per event and per query
\* ------------------------------------------------------------------------

\* the position of a store operation in the program order of the handler
OpIndex(ops, op) == CHOOSE i \in 1..Len(ops) : ops[i] = op

\* the rows of the table that the step changes or adds
RowsWritten(table, tableNext) ==
  {k \in DOMAIN tableNext : ~Has(table, k) \/ tableNext[k] # table[k]}

\* the step is a store operation of the handler of the event of version v
StepOfHandler(v) == Has(running, v) /\ running' # running

\* the handler moves forward in its program of store operations, so that it
\* performs each of them at most once, and what it holds of the snapshots is
\* at most the one row it read
HandlerWorkBounded(v) ==
  /\ Has(running', v) =>
       /\ OpIndex(StakingOps, running'[v].pc)
            > OpIndex(StakingOps, running[v].pc)
       /\ Cardinality(DOMAIN running'[v].store.stakingSnapshot) <= 1
       /\ Cardinality(DOMAIN running'[v].store.stakingBalance) <= 1
  /\ Cardinality(RowsWritten(stakingSnapshot, stakingSnapshot')) <= 1
  /\ RowsWritten(stakingSnapshot, stakingSnapshot') # {} =>
       running[v].pc = "upsert StakingSnapshot"
  /\ Cardinality(RowsWritten(stakingBalance, stakingBalance')) <= 1
  /\ RowsWritten(stakingBalance, stakingBalance') # {} =>
       running[v].pc = "upsert StakingBalance"

\* the snapshots of the account a query needs for the time t: the latest
\* with filledAt <= t and the one before it
BoundaryRows(snapshots, id, t) ==
  LET upTo == {k \in DOMAIN snapshots :
                 k[1] = id /\ snapshots[k].filledAt <= t}
      later(k) == {j \in upTo : snapshots[j].filledAt > snapshots[k].filledAt}
  IN [k \in {j \in upTo : Cardinality(later(j)) <= 1} |-> snapshots[k]]

\* the answer of the query is computed from at most two snapshots per query
\* time
QueryWorkBounded ==
  LET rows1 == BoundaryRows(query.first, QueriedAccount, query.t1)
      rows2 == BoundaryRows(stakingSnapshot, QueriedAccount, query.t2)
  IN /\ Cardinality(DOMAIN rows1) <= 2
     /\ Cardinality(DOMAIN rows2) <= 2
     /\ query'.result = AverageBalanceAcross(rows1, rows2, QueriedAccount,
                                             query.t1, query.t2)

\* C31 -- Constant work per event: the handler of one balance-changing
\* event reads at most one snapshot, writes at most one snapshot and one
\* account, and performs each of its store get/list/upsert operations at
\* most once, a number of operations that does not depend on how many
\* events or snapshots the account already has; a query reads at most two
\* snapshots per query time.
ConstantWork ==
  [][/\ \A v \in DOMAIN running : StepOfHandler(v) => HandlerWorkBounded(v)
     /\ (query.pc = "selected for t1" /\ query'.pc = "answered") =>
          QueryWorkBounded]_vars

\* a handler is about to write the third snapshot of the account, having
\* read one snapshot, and a query over the three snapshots was answered
ConstantWorkWitness ==
  /\ \E v \in DOMAIN running :
       /\ running[v].pc = "upsert StakingStats"
       /\ Cardinality(DOMAIN running[v].store.stakingSnapshot) = 1
  /\ Cardinality(DOMAIN stakingSnapshot) = 3
  /\ query.pc = "answered"
  /\ Cardinality(DOMAIN query.first) = 3
  /\ query.result.kind = "value"


\* ------------------------------------------------------------------------
\* Properties of the cumulative a query computes
\* ------------------------------------------------------------------------

\* the snapshot extrapolated forward to the time t
ExtrapolatedFrom(X, t) ==
  X.cumulativeBalanceSeconds + X.balance * (t - X.lastUpdateTime)

\* extrapolating any snapshot of the account forward, up to the creation of
\* the next one, gives the exact balance-seconds, and so does the value at
\* filledAt that the query derives from the predecessor
ExtrapolationExactIn(snapshots, id, evs) ==
  \A k \in {j \in DOMAIN snapshots : j[1] = id} :
    LET X == snapshots[k]
        next == <<id, k[2] + 1>>
        last == ~Has(snapshots, next)
        until == IF last THEN X.lastUpdateTime ELSE snapshots[next].filledAt
        times == QueryTimes \cup {X.lastUpdateTime, until}
    IN /\ \A t \in times :
            (X.lastUpdateTime <= t /\ (last \/ t <= until))
              => ExtrapolatedFrom(X, t) = BalanceSecondsAt(evs, t)
       /\ CumulativeAtFilledAt(X, PreviousSnapshot(snapshots, k))
            = BalanceSecondsAt(evs, X.filledAt)

\* C32 -- Forward extrapolation from a snapshot is exact: for any snapshot X
\* of an account and any time t with X.lastUpdateTime <= t <= the next
\* snapshot's filledAt (or any t >= X.lastUpdateTime when X is the latest
\* snapshot), X.cumulativeBalanceSeconds + X.balance * (t - X.lastUpdateTime)
\* equals the reference sum of balance * duration up to t; in particular the
\* cumulative at filledAt computed from the predecessor equals the
\* cumulative the snapshot stored when it was created, and the 0 assumed
\* without a predecessor is the first snapshot's cumulative at creation.
ForwardExtrapolationExact ==
  /\ \A id \in DOMAIN stakingBalance :
       ExtrapolationExactIn(stakingSnapshot, id, StakingEventsOf(id))
  /\ \A id \in DOMAIN storeBalance :
       ExtrapolationExactIn(balanceSnapshot, id, StoreEventsOf(id))

\* an account has a second snapshot whose predecessor was touched after its
\* creation and closed with a positive balance, so that the second snapshot
\* starts from a positive cumulative
ForwardExtrapolationExactWitness ==
  \E id \in DOMAIN stakingBalance :
    /\ Has(stakingSnapshot, <<id, 2>>)
    /\ stakingSnapshot[<<id, 1>>].balance > 0
    /\ stakingSnapshot[<<id, 1>>].lastUpdateTime
         > stakingSnapshot[<<id, 1>>].filledAt
    /\ stakingSnapshot[<<id, 2>>].cumulativeBalanceSeconds > 0
    /\ CumulativeAtFilledAt(stakingSnapshot[<<id, 2>>],
                            stakingSnapshot[<<id, 1>>]) > 0


\* ------------------------------------------------------------------------
\* Events inside the window of a second snapshot
\* ------------------------------------------------------------------------

\* transaction timestamps: two in the window of the first snapshot, one that
\* opens a second snapshot and two inside the window of the second
WindowTimes ==
  {Micros(1000, 0), Micros(4600, 999999), Micros(87401, 1), Micros(88500, 0),
   Micros(90000, 0)}

\* query times before, inside and after the windows
WindowQueryTimes == {1000, 2800, 4600, 87401, 88000, 90000, 200000}

\* the vault event and up to four staking events are delivered
MaxWindowEvents == 5

\* events are delivered in ledger order
DeliveredInWindows(ev, timestamp_micros) ==
  /\ version < MaxWindowEvents
  /\ getTimestampInSeconds(timestamp_micros) >= chainTime
  /\ version' = version + 1
  /\ chainTime' = getTimestampInSeconds(timestamp_micros)
  /\ event' = [ev EXCEPT !.timestamp = getTimestampInSeconds(timestamp_micros),
                         !.version = version + 1]
  /\ outcome' = HandlerOutcome(ev.fault)
  /\ UNCHANGED <<running, query, dualAssetVars>>

StakingEventInWindows(transactionType, amount) ==
  \E t \in WindowTimes :
    /\ DeliveredInWindows([NoEvent EXCEPT !.type = transactionType,
                                          !.user = U1, !.token = M1,
                                          !.amount = amount], t)
    /\ processStakingChange(U1, M1, amount, transactionType, Context(t, <<>>))
    /\ UNCHANGED <<vaultVars, fungibleVars>>

OnStakeInWindows ==
  \E amount \in DepositAmounts : StakingEventInWindows(STAKE, amount)

OnUnstakeInWindows ==
  \E amount \in WithdrawAmounts : StakingEventInWindows(UNSTAKE, amount)

NextWindows == VaultCreatedFirst \/ OnStakeInWindows \/ OnUnstakeInWindows

SpecWindows == Init /\ [][NextWindows]_vars

\* the cumulative the query computes never decreases with the query time,
\* and the average over an interval is never negative
MonotoneIn(snapshots, id, t1, t2) ==
  LET cumulative1 == CumulativeAt(snapshots, id, t1)
      cumulative2 == CumulativeAt(snapshots, id, t2)
      average == AverageBalance(snapshots, id, t1, t2)
  IN t1 < t2 =>
       /\ cumulative1.kind = "value" =>
            /\ cumulative2.kind = "value"
            /\ cumulative1.value <= cumulative2.value
            /\ cumulative1.value >= 0
       /\ average.kind = "value" => average.value >= 0

\* inside the window of a snapshot the interpolated value lies between the
\* cumulative at filledAt and the cumulative the snapshot holds
InterpolationBoundedIn(snapshots) ==
  \A k \in DOMAIN snapshots : \A t \in WindowQueryTimes :
    LET S == snapshots[k]
        P == PreviousSnapshot(snapshots, k)
        cumulative == getCumulativeAt(t, S, P)
    IN (S.filledAt <= t /\ t < S.lastUpdateTime) =>
         /\ cumulative.kind = "value"
         /\ CumulativeAtFilledAt(S, P) <= cumulative.value
         /\ cumulative.value <= S.cumulativeBalanceSeconds

SpacedIn(bal, snapshots, id) ==
  LET count == bal[id].totalSnapshotCount
      S(n) == snapshots[<<id, n>>]
  IN /\ \A n \in 1..count :
          /\ Has(snapshots, <<id, n>>)
          /\ S(n).filledAt <= S(n).lastUpdateTime
          /\ S(n).lastUpdateTime
               <= S(n).filledAt + SNAPSHOT_LIFETIME_SECONDS
     /\ \A n \in 1..(count - 1) :
          /\ S(n + 1).filledAt - S(n).filledAt > SNAPSHOT_LIFETIME_SECONDS
          /\ S(n).filledAt + SNAPSHOT_LIFETIME_SECONDS < S(n + 1).filledAt
     /\ \A n, m \in 1..count : (n < m) <=> (S(n).filledAt < S(m).filledAt)
     /\ count >= 1 =>
          count <= 1 + (bal[id].lastObservationTime - S(1).filledAt)
                         \div (SNAPSHOT_LIFETIME_SECONDS + 1)

\* C34 -- Snapshot spacing: for events delivered in non-decreasing timestamp
\* order, consecutive snapshots n and n+1 of one account satisfy
\* filledAt(n+1) - filledAt(n) > 86400 and lastUpdateTime(n) <= filledAt(n)
\* + 86400 < filledAt(n+1), every snapshot satisfies filledAt <=
\* lastUpdateTime, and therefore ordering the snapshots by filledAt is the
\* same as ordering them by sequence and snapshotCount <= 1 +
\* (lastObservationTime - first filledAt) / 86401.
SnapshotSpacing ==
  /\ \A id \in DOMAIN stakingBalance :
       SpacedIn(stakingBalance, stakingSnapshot, id)
  /\ \A id \in DOMAIN storeBalance :
       SpacedIn(storeBalance, balanceSnapshot, id)

\* an account has two snapshots, the first of which was touched when it was
\* exactly 24 hours old, and the second was created one second later
SnapshotSpacingWitness ==
  \E id \in DOMAIN stakingBalance :
    /\ stakingBalance[id].totalSnapshotCount = 2
    /\ stakingSnapshot[<<id, 1>>].lastUpdateTime
         = stakingSnapshot[<<id, 1>>].filledAt + SNAPSHOT_LIFETIME_SECONDS
    /\ stakingSnapshot[<<id, 2>>].filledAt
         = stakingSnapshot[<<id, 1>>].lastUpdateTime + 1


\* ------------------------------------------------------------------------
\* Staking events whose handler may stop before the snapshot upsert
\* ------------------------------------------------------------------------

\* three times in the window of the first snapshot and one past it
CrashTimes ==
  {Micros(1000, 0), Micros(4600, 999999), Micros(8200, 0), Micros(87401, 1)}

\* the handler completes, or stops at the upsert of the snapshot, after the
\* upserts of the account and the transaction
OnStakeCrashing ==
  \E t \in CrashTimes, fault \in {NoFault, "upsert StakingSnapshot"} :
    /\ Delivered([NoEvent EXCEPT !.type = STAKE, !.user = U1, !.token = M1,
                                 !.amount = 2, !.fault = fault], t)
    /\ IF fault = NoFault
         THEN processStakingChange(U1, M1, 2, STAKE, Context(t, <<>>))
         ELSE processStakingChangeFailing(U1, M1, 2, STAKE, Context(t, <<>>),
                                          fault)
    /\ UNCHANGED <<vaultVars, fungibleVars>>

NextCrash == VaultCreatedFirst \/ OnStakeCrashing

SpecCrash == Init /\ [][NextCrash]_vars

\* the step processes a tracked staking event completely
StakingCompleted == StakingApplied /\ event'.fault = NoFault

\* the open snapshot of the account holds the account's balance, cumulative
\* and observation time
OpenSnapshotOf(bal, snapshots, id) ==
  LET open == <<id, bal[id].totalSnapshotCount>>
  IN /\ Has(snapshots, open)
     /\ snapshots[open].balance = bal[id].lastKnownBalance
     /\ snapshots[open].cumulativeBalanceSeconds
          = bal[id].cumulativeBalanceSeconds
     /\ snapshots[open].lastUpdateTime = bal[id].lastObservationTime

\* the account was updated by an in-window event whose snapshot upsert did
\* not happen: the open snapshot exists and is behind the account
StaleSnapshot(id) ==
  /\ Has(stakingBalance, id)
  /\ Has(stakingSnapshot, <<id, stakingBalance[id].totalSnapshotCount>>)
  /\ ~OpenSnapshotOf(stakingBalance, stakingSnapshot, id)

\* the event falls in the window of the open snapshot
InOpenWindow(id, ev) ==
  ev.timestamp
    - stakingSnapshot[<<id, stakingBalance[id].totalSnapshotCount>>].filledAt
    <= SNAPSHOT_LIFETIME_SECONDS

\* C35 -- Recovery after a stale snapshot: if processing stopped between the
\* account upsert and the snapshot upsert of an in-window event (account
\* updated, snapshot stale) and a later event of the same window is then
\* processed completely, the open snapshot's balance,
\* cumulativeBalanceSeconds and lastUpdateTime again equal the account's
\* after that event.
RecoveryAfterStaleSnapshot ==
  [][(/\ StakingCompleted
      /\ StaleSnapshot(StakingId(event'))
      /\ InOpenWindow(StakingId(event'), event'))
       => OpenSnapshotOf(stakingBalance', stakingSnapshot',
                         StakingId(event'))]_vars

\* the account counts a snapshot that was never written: the handler of the
\* event that opened it stopped before the snapshot upsert
InterruptedRollover(id) ==
  /\ Has(stakingBalance, id)
  /\ stakingBalance[id].totalSnapshotCount > 0
  /\ ~Has(stakingSnapshot, <<id, stakingBalance[id].totalSnapshotCount>>)

\* C36 -- No numbering gap after an interrupted rollover: if processing
\* stopped between the account upsert and the snapshot upsert of an event
\* that opened a new snapshot (snapshotCount persisted as n+1, snapshot n+1
\* not persisted), then after the next completely processed event a
\* snapshot exists for every sequence in 1..snapshotCount.
NoGapAfterInterruptedRollover ==
  [][(StakingCompleted /\ InterruptedRollover(StakingId(event')))
       => \A n \in 1..stakingBalance'[StakingId(event')].totalSnapshotCount :
            Has(stakingSnapshot', <<StakingId(event'), n>>)]_vars



\* the cache entry of store s says the store is tracked exactly when a
\* Vault with the store's metadata as sharesMetadata exists
TrackedAsVaultsSay(cache, vaults, s) ==
  cache[s].isCanopyVault
    <=> ListVaultsBySharesMetadata(vaults, cache[s].metadata) # {}

\* the step delivers a deposit/withdraw on a cached store whose metadata is
\* the sharesMetadata of an existing Vault
OnStoreOfExistingVault ==
  /\ OnCachedStore
  /\ ListVaultsBySharesMetadata(
       vault, storeMetadataCache[event'.store].metadata) # {}

\* the ledger of the store has taken the event of the step
AppliedToLedger ==
  /\ Has(storeBalance', event'.store)
  /\ storeBalance'[event'.store].lastObservationTime = event'.timestamp
  /\ DOMAIN transaction' # DOMAIN transaction

\* C37 -- Tracking does not depend on event order relative to vault
\* creation: in every reachable state a store's
\* StoreMetadataCache.isCanopyVault is true exactly when a Vault whose
\* sharesMetadata equals the store's metadata exists, so once such a Vault
\* has been created every subsequent deposit/withdraw on that store is
\* applied to its ledger, also when the store's first event was processed
\* before the VaultCreated event.
TrackingOrderIndependent ==
  [][/\ \A s \in DOMAIN storeMetadataCache' :
          TrackedAsVaultsSay(storeMetadataCache', vault', s)
     /\ OnStoreOfExistingVault => AppliedToLedger]_vars


\* the step delivers a deposit/withdraw on a store that has no cache entry
OnUncachedStore ==
  /\ version' = version + 1
  /\ event'.type \in {DEPOSIT, WITHDRAW}
  /\ ~Has(storeMetadataCache, event'.store)

\* the view call of the step throws or returns no metadata address
LookupFailed == event'.viewResult \in {ViewThrows, NoMetadata}

\* C38 -- Failed metadata lookup leaves state unchanged: when the view call
\* for an uncached store fails or returns no metadata address, the handler
\* returns without writing any entity (no StoreMetadataCache, StoreBalance,
\* BalanceSnapshot, Transaction or stats), so the event's delta is not
\* applied then or later, and the next event on that store repeats the
\* lookup because no negative result was cached: an event on an uncached
\* store writes the cache entry exactly when its view call succeeds.
FailedLookupLeavesState ==
  [][OnUncachedStore =>
       /\ LookupFailed =>
            /\ UNCHANGED <<storeMetadataCache, storeBalance, balanceSnapshot,
                           transaction, fungibleAssetStats>>
            /\ UNCHANGED <<vaultVars, stakingVars>>
       /\ Has(storeMetadataCache', event'.store) <=> ~LookupFailed
       /\ ~LookupFailed =>
            storeMetadataCache'[event'.store].metadata = event'.viewResult]_vars

\* a lookup for a store has just failed while the other store has a ledger:
\* the store is still uncached
FailedLookupLeavesStateWitness ==
  /\ event.type \in {DEPOSIT, WITHDRAW}
  /\ event.viewResult \in {ViewThrows, NoMetadata}
  /\ ~Has(storeMetadataCache, event.store)
  /\ \E s \in Stores \ {event.store} :
       /\ Has(storeBalance, s)
       /\ storeBalance[s].lastKnownBalance > 0
  /\ Has(fungibleAssetStats, STATS_ID)


\* ------------------------------------------------------------------------
\* Several users staking the share tokens of several vaults
\* ------------------------------------------------------------------------

U2 == Addr("5858", 64)    \* a second staker

\* the share tokens as the stake events carry them: those of the two vaults
\* as the Vault entities hold them, and the second as its VaultCreated event
\* carried it
StakedTokens == {M1, padAptosAddress(M2), M2}

OnVaultCreatedOfUsers ==
  \E t \in {Micros(1000, 0), Micros(4600, 999999)},
     v \in {<<V1, M1>>, <<V2, M2>>} :
    /\ Delivered([NoEvent EXCEPT !.type = "VaultCreated", !.vault = v[1],
                                 !.token = v[2]], t)
    /\ VaultCreated(v[1], v[2], Context(t, <<>>))

StakingEventOfUsers(transactionType, amount) ==
  \E t \in {Micros(1000, 0), Micros(4600, 999999)},
     u \in {U1, U2}, token \in StakedTokens :
    /\ Delivered([NoEvent EXCEPT !.type = transactionType, !.user = u,
                                 !.token = token, !.amount = amount], t)
    /\ processStakingChange(u, token, amount, transactionType,
                            Context(t, <<>>))
    /\ UNCHANGED <<vaultVars, fungibleVars>>

OnStakeOfUsers == StakingEventOfUsers(STAKE, 2)

OnUnstakeOfUsers == StakingEventOfUsers(UNSTAKE, 3)

NextUsers == OnVaultCreatedOfUsers \/ OnStakeOfUsers \/ OnUnstakeOfUsers

SpecUsers == Init /\ [][NextUsers]_vars

\* both user counters of the stats are the number of User entities
UserCountersOf(stats, users) ==
  IF Has(stats, STATS_ID)
    THEN /\ stats[STATS_ID].uniqueUserCount = Cardinality(DOMAIN users)
         /\ stats[STATS_ID].canopyVaultStakerCount = Cardinality(DOMAIN users)
    ELSE DOMAIN users = {}

\* the accounts of a user
AccountsOf(u) == {id \in DOMAIN stakingBalance : id[1] = u}

\* C39 -- Users are counted once: a User entity is created at the first
\* tracked stake/unstake of an address with firstSeenAt = that event's time,
\* firstSeenAt is never changed by later events, and in every state
\* StakingStats.uniqueUserCount == canopyVaultStakerCount == the number of
\* User entities, also when one user stakes several vault tokens and has
\* several StakingBalance accounts.
UsersCountedOnce ==
  [][/\ UserCountersOf(stakingStats', user')
     /\ \A u \in DOMAIN user :
          /\ Has(user', u)
          /\ user'[u].firstSeenAt = user[u].firstSeenAt
     /\ \A u \in DOMAIN user' \ DOMAIN user :
          /\ StakingApplied
          /\ u = event'.user
          /\ user'[u].firstSeenAt = event'.timestamp
     /\ StakingApplied => Has(user', event'.user)]_vars

\* one user holds accounts of two vault tokens, the second opened by an
\* event later than the user's first, and is counted once
UsersCountedOnceWitness ==
  /\ Cardinality(AccountsOf(U1)) = 2
  /\ Has(user, U1)
  /\ user[U1].firstSeenAt < event.timestamp
  /\ event.user = U1
  /\ event.type \in {STAKE, UNSTAKE}
  /\ stakingStats[STATS_ID].uniqueUserCount = 1
  /\ stakingStats[STATS_ID].canopyVaultStakerCount = 1


\* ------------------------------------------------------------------------
\* dual-asset-processor.ts
\* ------------------------------------------------------------------------

\* message type constants from the Move contract
MESSAGE_TYPE_CLAIM_CONFIG == 1
MESSAGE_TYPE_BATCH_CONTRIBUTION == 2

\* trace code constants from the Move contract
TRACE_MESSAGE_TOO_SHORT == 100
TRACE_INVALID_MESSAGE_TYPE == 101
TRACE_DECODE_FAILURE == 102

\* get or create stats singleton entity
getOrCreateStats(timestamp) ==
  IF Has(dualAssetStats, STATS_ID)
    THEN dualAssetStats[STATS_ID]
    ELSE [total_message_count |-> 0, claim_config_count |-> 0,
          batch_contribution_count |-> 0, invalid_message_type_count |-> 0,
          message_too_short_count |-> 0, decode_failure_count |-> 0,
          last_update_time |-> timestamp]

\* variant: only the message types of the contract are counted
TrackMessageTypeKnownOnly(stats, messageType) ==
  IF messageType = MESSAGE_TYPE_CLAIM_CONFIG
    THEN [stats EXCEPT !.claim_config_count = @ + 1]
    ELSE IF messageType = MESSAGE_TYPE_BATCH_CONTRIBUTION
      THEN [stats EXCEPT !.batch_contribution_count = @ + 1]
      ELSE stats

\* track message types
TrackMessageType(stats, messageType) ==
  IF messageType = MESSAGE_TYPE_CLAIM_CONFIG
    THEN [stats EXCEPT !.claim_config_count = @ + 1]
    ELSE IF messageType = MESSAGE_TYPE_BATCH_CONTRIBUTION
      THEN [stats EXCEPT !.batch_contribution_count = @ + 1]
      ELSE [stats EXCEPT !.invalid_message_type_count = @ + 1]

\* track error types by trace code
TrackTraceCode(stats, traceCode) ==
  IF traceCode = TRACE_MESSAGE_TOO_SHORT
    THEN [stats EXCEPT !.message_too_short_count = @ + 1]
    ELSE IF traceCode = TRACE_DECODE_FAILURE
      THEN [stats EXCEPT !.decode_failure_count = @ + 1]
      ELSE stats

\* the handler of MessageProcessingEvent; Number(trace_code) and
\* BigInt(message_type.toString()) keep the value of the small codes
\* delivered here
MessageProcessingEvent(traceCode, messageType, from, ctx) ==
  LET timestamp == getTimestampInSeconds(ctx.timestamp)
      stats0 == getOrCreateStats(timestamp)
      eventEntity ==
        [trace_code |-> traceCode, message_type |-> messageType,
         from |-> from, transaction_version |-> ctx.version,
         event_index |-> ctx.eventIndex, timestamp |-> timestamp]
      stats1 == [stats0 EXCEPT !.total_message_count = @ + 1]
      stats2 == TrackMessageType(stats1, messageType)
      stats3 == TrackTraceCode(stats2, traceCode)
      stats == [stats3 EXCEPT !.last_update_time = timestamp]
  IN /\ dualAssetEvent' =
          Upsert(dualAssetEvent, <<ctx.version, ctx.eventIndex>>, eventEntity)
     /\ dualAssetStats' = Upsert(dualAssetStats, STATS_ID, stats)
     /\ UNCHANGED <<vaultVars, fungibleVars, stakingVars>>

\* the message types and trace codes the events carry: the two types of the
\* contract and two others, success and the three error codes
MessageTypes == {0, 1, 2, 3}
TraceCodes == {0, 100, 101, 102}

MaxMessages == 3

\* the next event of the ledger is delivered to the dual-asset handler
DeliveredMessage(ev, timestamp_micros) ==
  /\ version < MaxMessages
  /\ getTimestampInSeconds(timestamp_micros) >= chainTime
  /\ version' = version + 1
  /\ chainTime' = getTimestampInSeconds(timestamp_micros)
  /\ event' = [ev EXCEPT !.timestamp = getTimestampInSeconds(timestamp_micros),
                         !.version = version + 1]
  /\ outcome' = HandlerOutcome(ev.fault)
  /\ UNCHANGED <<running, query>>

OnMessageProcessingEvent ==
  \E t \in {Micros(1000, 0), Micros(4600, 999999)},
     messageType \in MessageTypes,
     traceCode \in TraceCodes :
    /\ DeliveredMessage([NoEvent EXCEPT !.type = "MessageProcessingEvent",
                                        !.user = U1,
                                        !.messageType = messageType,
                                        !.traceCode = traceCode], t)
    /\ MessageProcessingEvent(traceCode, messageType, U1, Context(t, <<>>))

NextMessages == OnMessageProcessingEvent

SpecMessages == Init /\ [][NextMessages]_vars

\* the three message-type counters add up to the total, and the two error
\* counters stay within it
CountersPartition(stats) ==
  /\ stats.total_message_count
       = stats.claim_config_count + stats.batch_contribution_count
           + stats.invalid_message_type_count
  /\ stats.message_too_short_count + stats.decode_failure_count
       <= stats.total_message_count

\* how many of the three message-type counters differ between two stats
TypeCountersIncremented(old, new) ==
  Cardinality({f \in {"claim_config_count", "batch_contribution_count",
                      "invalid_message_type_count"} : new[f] = old[f] + 1})

\* the sum of the three message-type counters
TypeCountersSum(stats) ==
  stats.claim_config_count + stats.batch_contribution_count
    + stats.invalid_message_type_count

\* C40 -- Dual-asset message counters partition the total: after any
\* sequence of MessageProcessingEvents, total_message_count ==
\* claim_config_count + batch_contribution_count +
\* invalid_message_type_count, every event increments exactly one of those
\* three, and message_too_short_count + decode_failure_count <=
\* total_message_count.
MessageCountersPartition ==
  [][event'.type = "MessageProcessingEvent" =>
       LET old == getOrCreateStats(event'.timestamp)
           new == dualAssetStats'[STATS_ID]
       IN /\ Has(dualAssetStats', STATS_ID)
          /\ CountersPartition(new)
          /\ new.total_message_count = old.total_message_count + 1
          /\ new.total_message_count = version'
          /\ TypeCountersIncremented(old, new) = 1
          /\ TypeCountersSum(new) = TypeCountersSum(old) + 1]_vars

\* messages of a contract type, of another type and with both counted error
\* codes have been processed
MessageCountersPartitionWitness ==
  /\ Has(dualAssetStats, STATS_ID)
  /\ dualAssetStats[STATS_ID].total_message_count = 3
  /\ dualAssetStats[STATS_ID].invalid_message_type_count = 1
  /\ dualAssetStats[STATS_ID].claim_config_count
       + dualAssetStats[STATS_ID].batch_contribution_count = 2
  /\ dualAssetStats[STATS_ID].message_too_short_count = 1
  /\ dualAssetStats[STATS_ID].decode_failure_count = 1

====
